---- MODULE Spec2Model ----
(***************************************************************************)
(* Event pipeline of the analytics-automation connector service:           *)
(* webhook receiver, repository directory, analyzer run queue and worker,  *)
(* schema-governed ingest, and the pull-request workflow.                  *)
(***************************************************************************)
EXTENDS Integers, Sequences, FiniteSets, TLC

(***************************************************************************)
(* Bounds of the model.                                                    *)
(***************************************************************************)
MaxRuns == 2

Null == "null"

Deliveries == {"d1", "d2"}

(***************************************************************************)
(* Store and process state.                                                *)
(***************************************************************************)
VARIABLES
  repos,       \* table repos: set of rows, unique on (provider, owner, name)
  nextRepoId,  \* next identifier the store hands out for a new repos row
  runs,        \* table analyzer_runs: sequence of rows in creation order
  events,      \* table events (the event log): sequence of rows
  clock,       \* the server's clock (new Date()), in ticks
  del,         \* webhook requests in flight, one record per delivery slot
  bf,          \* the backfill script's position
  wk,          \* analyzer worker invocations, one record per invocation slot
  lastEnsure,  \* history: arguments of the latest ensureRepo call, per full name
  ensuredIds,  \* history: every id an ensureRepo call returned, per full name
  ires,        \* the latest answer of an ingest or override request
  rnodes,      \* route matching: the graph's nodes
  rpath,       \* route matching: the path looked up
  rres,        \* route matching: the answer
  filesAt,     \* hosting API: paths present at each commit
  branches,    \* hosting API: feature branches
  prs,         \* hosting API: pull requests, in creation order
  ares,        \* the latest answer of an approve request
  approved,    \* history: pull request last returned by approve, per commit
  tk           \* the browser tracker: its queue, timers and sends in flight

dirVars == <<repos, nextRepoId, lastEnsure, ensuredIds>>
hookVars == <<del, bf>>
logVars == <<events, clock, ires>>
routeVars == <<rnodes, rpath, rres>>
trackVars == <<tk>>
hostVars == <<filesAt, branches, prs, ares, approved>>

vars == <<repos, nextRepoId, runs, events, clock, del, bf, wk, lastEnsure,
          ensuredIds, ires, rnodes, rpath, rres, filesAt, branches, prs, ares,
          approved, tk>>

(***************************************************************************)
(* Repository directory (server.ts ensureRepo / findRepoId).               *)
(***************************************************************************)
\* A full name is the list of its '/'-separated parts.
FullNames == {<<"o", "a">>, <<"o", "b">>}

parseFullName(full) == [owner |-> full[1], name |-> full[2]]

RowsFor(rows, owner, name) ==
  {r \in rows : r.provider = "github" /\ r.owner = owner /\ r.name = name}

\* the upsert's effect on the table: ON CONFLICT (provider, owner, name) the
\* supplied columns overwrite the row, the id column is not supplied
UpsertDropsUpdate(rows, owner, name, defaultBranch, installationId, newId) ==
  IF RowsFor(rows, owner, name) # {}
  THEN rows
  ELSE rows \cup {[id |-> newId, provider |-> "github", owner |-> owner,
                   name |-> name, default_branch |-> defaultBranch,
                   installation_id |-> installationId]}

Upsert(rows, owner, name, defaultBranch, installationId, newId) ==
  IF RowsFor(rows, owner, name) # {}
  THEN {IF r \in RowsFor(rows, owner, name)
        THEN [r EXCEPT !.default_branch = defaultBranch,
                       !.installation_id = installationId]
        ELSE r : r \in rows}
  ELSE rows \cup {[id |-> newId, provider |-> "github", owner |-> owner,
                   name |-> name, default_branch |-> defaultBranch,
                   installation_id |-> installationId]}

\* args.default_branch ?? 'main'
DefaultBranchArg(b) == IF b = Null THEN "main" ELSE b

\* the table after ensureRepo(args)
ensureRepo(rows, full, default_branch, installation_id, newId) ==
  Upsert(rows, parseFullName(full).owner, parseFullName(full).name,
         DefaultBranchArg(default_branch), installation_id, newId)

\* the row ensureRepo returns (.select().single() after the upsert)
EnsuredRow(rows, full) ==
  CHOOSE r \in RowsFor(rows, parseFullName(full).owner, parseFullName(full).name) : TRUE

findRepoId(rows, full) ==
  IF RowsFor(rows, parseFullName(full).owner, parseFullName(full).name) = {}
  THEN 0
  ELSE EnsuredRow(rows, full).id

(***************************************************************************)
(* Webhook signature (server.ts POST /webhooks/github, lines 174-195).     *)
(***************************************************************************)
WEBHOOK_SECRET == "k"

\* HMAC-SHA256 as an ideal MAC: the tag names the key and the exact bytes
Hmac(key, raw) == <<key, raw>>

NoSig == [present |-> FALSE, prefix |-> "", mac |-> <<"", "">>, hexlen |-> 0]

SigHeader(prefix, key, raw, hexlen) ==
  [present |-> TRUE, prefix |-> prefix, mac |-> Hmac(key, raw), hexlen |-> hexlen]

\* 'sha256=' + createHmac('sha256', WEBHOOK_SECRET).update(raw).digest('hex')
Expected(raw) == SigHeader("sha256=", WEBHOOK_SECRET, raw, 64)

\* byte length of the header string
SigLen(sig) == (IF sig.prefix = "sha1=" THEN 5 ELSE 7) + sig.hexlen

\* a verification that compares the prefix and the length only
VerifyPrefixOnly(raw, sig) ==
  IF raw = Null THEN "missing_raw"
  ELSE IF ~sig.present THEN "invalid"
  ELSE IF SigLen(Expected(raw)) # SigLen(sig) THEN "throw"
  ELSE IF sig.prefix = "sha256=" THEN "ok"
  ELSE "invalid"

\* raw missing -> 401; header missing -> 401; timingSafeEqual throws a
\* RangeError on buffers of different length (caught: 500); else compare
VerifySignature(raw, sig) ==
  IF raw = Null THEN "missing_raw"
  ELSE IF ~sig.present THEN "invalid"
  ELSE IF SigLen(Expected(raw)) # SigLen(sig) THEN "throw"
  ELSE IF Expected(raw) = sig THEN "ok"
  ELSE "invalid"

(***************************************************************************)
(* Webhook bodies: the raw bytes and the payload JSON.parse gives.         *)
(***************************************************************************)
RawBodies == {"pushA1", "pushA1ws", "pushA2", "pushB1", "pushAhc", "pushAnone",
              "pushNoRepo"}

PushPayload(full, branch, inst, before, after, head) ==
  [full |-> full, default_branch |-> branch, installation |-> inst,
   before |-> before, after |-> after, head_commit |-> head]

\* pushA1ws is pushA1 with other whitespace: other bytes, the same payload
ParseBody(raw) ==
  CASE raw = "pushA1"     -> PushPayload(<<"o", "a">>, "main", "i1", "s0", "s1", Null)
    [] raw = "pushA1ws"   -> PushPayload(<<"o", "a">>, "main", "i1", "s0", "s1", Null)
    [] raw = "pushA2"     -> PushPayload(<<"o", "a">>, "dev", Null, "s1", "s2", Null)
    [] raw = "pushB1"     -> PushPayload(<<"o", "b">>, Null, "i1", "s0", "s1", Null)
    [] raw = "pushAhc"    -> PushPayload(<<"o", "a">>, "main", "i1", "s0", Null, "s1")
    [] raw = "pushAnone"  -> PushPayload(<<"o", "a">>, "main", "i1", Null, Null, Null)
    [] OTHER              -> PushPayload(<<>>, Null, Null, Null, Null, Null)

EventKinds == {"push", "ping"}

\* payload.after ?? payload.head_commit?.id ?? null
HeadShaOf(payload) ==
  IF payload.after # Null THEN payload.after ELSE payload.head_commit

(***************************************************************************)
(* analyzer_runs rows.                                                     *)
(***************************************************************************)
RunRow(repoId, sha, kind, base, head) ==
  [repo_id |-> repoId, commit_sha |-> sha, status |-> "queued",
   event_type |-> kind, base_sha |-> base, head_sha |-> head, note |-> "none"]

RunsFor(rs, repoId, sha) ==
  {i \in DOMAIN rs : rs[i].repo_id = repoId /\ rs[i].commit_sha = sha}

\* a dedupe that never finds the run
DedupeNever(rs, repoId, sha) == FALSE

\* select id from analyzer_runs where repo_id = .. and commit_sha = .. limit 1
DedupeExists(rs, repoId, sha) == RunsFor(rs, repoId, sha) # {}

(***************************************************************************)
(* Route matching (routes/ingest.ts toRegexFromPattern and the node loop). *)
(* A string is the sequence of its characters.                             *)
(***************************************************************************)
MaxNodes == 2

\* the absent string (null / undefined)
NullStr == <<"null">>

Letters ==
  {"a", "b", "c", "d", "e", "f", "g", "h", "i", "j", "k", "l", "m", "n", "o", "p",
   "q", "r", "s", "t", "u", "v", "w", "x", "y", "z", "A", "B", "C", "D", "E", "F",
   "G", "H", "I", "J", "K", "L", "M", "N", "O", "P", "Q", "R", "S", "T", "U", "V",
   "W", "X", "Y", "Z"}

Digits == {"0", "1", "2", "3", "4", "5", "6", "7", "8", "9"}

\* [a-zA-Z_] and [a-zA-Z0-9_]
NameStart == Letters \cup {"_"}

NameChars == Letters \cup Digits \cup {"_"}

\* the character class [.*+?^${}()|[\]\\]
MetaChars == {".", "*", "+", "?", "^", "$", "{", "}", "(", ")", "|", "[", "]", "\\"}

\* s.replace(/[.*+?^${}()|[\]\\]/g, '\\$&')
RECURSIVE EscapeFrom(_, _)
EscapeFrom(s, i) ==
  IF i > Len(s) THEN <<>>
  ELSE (IF s[i] \in MetaChars THEN <<"\\", s[i]>> ELSE <<s[i]>>) \o EscapeFrom(s, i + 1)

\* String.prototype.replace with a global regex of literal characters:
\* leftmost occurrences, not overlapping
RECURSIVE ReplaceFrom(_, _, _, _)
ReplaceFrom(s, i, lit, rep) ==
  IF i > Len(s) THEN <<>>
  ELSE IF i + Len(lit) - 1 <= Len(s) /\ SubSeq(s, i, i + Len(lit) - 1) = lit
       THEN rep \o ReplaceFrom(s, i + Len(lit), lit, rep)
       ELSE <<s[i]>> \o ReplaceFrom(s, i + 1, lit, rep)

\* index of the last character of the identifier that holds position j
RECURSIVE NameEnd(_, _)
NameEnd(s, j) ==
  IF j + 1 <= Len(s) /\ s[j + 1] \in NameChars THEN NameEnd(s, j + 1) ELSE j

SegSrc == <<"[", "^", "/", "]", "+">>

SplatSrc == <<".", "+">>

\* .replace(/\\:([a-zA-Z_][a-zA-Z0-9_]*)/g, '[^/]+'): a backslash, a colon
\* and an identifier
RECURSIVE ReplaceNamesFrom(_, _)
ReplaceNamesFrom(s, i) ==
  IF i > Len(s) THEN <<>>
  ELSE IF i + 2 <= Len(s) /\ s[i] = "\\" /\ s[i + 1] = ":" /\ s[i + 2] \in NameStart
       THEN SegSrc \o ReplaceNamesFrom(s, NameEnd(s, i + 2) + 1)
       ELSE <<s[i]>> \o ReplaceNamesFrom(s, i + 1)

\* the source of the regular expression between '^' and '$'
toRegexFromPattern(pattern) ==
  ReplaceNamesFrom(
    ReplaceFrom(
      ReplaceFrom(EscapeFrom(pattern, 1), 1, <<"\\", ":", "s", "p", "l", "a", "t">>, SplatSrc),
      1, <<"\\", ":", "p", "a", "r", "a", "m">>, SegSrc),
    1)

\* new RegExp(source): the atoms of the source.  After the escaping step an
\* unescaped '[' only opens the class [^/], an unescaped '.' is the wildcard
\* and an unescaped '+' the quantifier of the atom before it.
AtomAt(src, i) ==
  IF src[i] = "\\" THEN [kind |-> "lit", c |-> src[i + 1], len |-> 2]
  ELSE IF src[i] = "[" THEN [kind |-> "notslash", c |-> "/", len |-> 4]
  ELSE IF src[i] = "." THEN [kind |-> "any", c |-> ".", len |-> 1]
  ELSE IF src[i] = "^" THEN [kind |-> "bol", c |-> "^", len |-> 1]
  ELSE [kind |-> "lit", c |-> src[i], len |-> 1]

RECURSIVE ParseFrom(_, _)
ParseFrom(src, i) ==
  IF i > Len(src) THEN <<>>
  ELSE LET a == AtomAt(src, i)
           j == i + a.len
           plus == j <= Len(src) /\ src[j] = "+"
       IN <<[kind |-> a.kind, c |-> a.c, plus |-> plus]>>
            \o ParseFrom(src, IF plus THEN j + 1 ELSE j)

Accepts(a, ch) ==
  CASE a.kind = "lit" -> ch = a.c
    [] a.kind = "notslash" -> ch # "/"
    [] OTHER -> TRUE

\* RegExp.prototype.test of '^' + source + '$' from atom k on, at position j
RECURSIVE MatchFrom(_, _, _, _)
MatchFrom(atoms, k, str, j) ==
  IF k > Len(atoms) THEN j = Len(str) + 1
  ELSE IF atoms[k].kind = "bol" THEN j = 1 /\ MatchFrom(atoms, k + 1, str, j)
  ELSE IF ~atoms[k].plus
       THEN /\ j <= Len(str)
            /\ Accepts(atoms[k], str[j])
            /\ MatchFrom(atoms, k + 1, str, j + 1)
       ELSE \E n \in 1..(Len(str) - j + 1) :
               /\ \A m \in j..(j + n - 1) : Accepts(atoms[k], str[m])
               /\ MatchFrom(atoms, k + 1, str, j + n)

RegexTest(pattern, path) ==
  MatchFrom(ParseFrom(toRegexFromPattern(pattern), 1), 1, path, 1)

\* n?.pattern ?? n?.id
PatternOf(n) == IF n.pattern # NullStr THEN n.pattern ELSE n.id

\* for (const n of nodes) { if (regex.test(path)) { node_id = String(n.id); break; } }
RECURSIVE MatchNodeFrom(_, _, _)
MatchNodeFrom(nodes, i, path) ==
  IF i > Len(nodes) THEN NullStr
  ELSE IF RegexTest(PatternOf(nodes[i]), path) THEN nodes[i].id
  ELSE MatchNodeFrom(nodes, i + 1, path)

MatchNode(nodes, path) == MatchNodeFrom(nodes, 1, path)

\* graph nodes and paths of the model
N_home == [id |-> <<"h", "o", "m", "e">>, pattern |-> <<"/">>]

N_product == [id |-> <<"p", "r", "o", "d", "u", "c", "t">>, pattern |-> <<"/", "p", "r", "o", "d", "u", "c", "t", "/", ":", "i", "d">>]

N_docs == [id |-> <<"d", "o", "c", "s">>, pattern |-> <<"/", "d", "o", "c", "s", "/", ":", "s", "p", "l", "a", "t">>]

N_file == [id |-> <<"f", "i", "l", "e">>, pattern |-> <<"/", "a", ".", "b">>]

N_bare == [id |-> <<"/", "x">>, pattern |-> NullStr]

N_user == [id |-> <<"u", "s", "e", "r">>, pattern |-> <<"/", "u", "/", "\\", ":", "i", "d">>]

Nodes == {N_home, N_product, N_docs, N_file, N_bare, N_user}

NodeLists == UNION {[1..n -> Nodes] : n \in 0..MaxNodes}

Paths == {<<"/">>, <<"/", "p", "r", "o", "d", "u", "c", "t", "/", "4", "2">>, <<"/", "n", "o", "p", "e">>, <<"/", "p", "r", "o", "d", "u", "c", "t", "/", ":", "i", "d">>, <<"/", "d", "o", "c", "s", "/", "a", "/", "b">>, <<"/", "a", ".", "b">>, <<"/", "a", "x", "b">>, <<"/", "x">>, <<"/", "u", "/", "7">>}

(***************************************************************************)
(* POST /schema/approve against the hosting API, in its two               *)
(* implementations: routes/schema.ts (one commit through the git data API, *)
(* collision check first) and routes/analytics-intelligence.ts (one        *)
(* Contents-API write per file, auto-injection).  A path is the list of    *)
(* its '/'-separated parts.                                                *)
(***************************************************************************)
MaxPrs == 2

P_contract == <<".analytics", "contract.json">>

P_map == <<".analytics", "adapter.map.json">>

P_readme == <<".analytics", "README.md">>

P_fire == <<"src", "aa", "fire.ts">>

P_adapter == <<"src", "aa", "adapter.ts">>

P_tracker == <<"src", "aa", "tracker.ts">>

P_provider == <<"src", "app", "AAProvider.tsx">>

P_index == <<"index.html">>

P_layout == <<"src", "app", "layout.tsx">>

P_new == <<"src", "new.ts">>

P_snippet == <<"src", "track.ts">>

\* '/etc' and '../x'
P_abs == <<"", "etc">>

P_up == <<"..", "x">>

\* path.startsWith('/') || path.includes('..')
\* a test for the leading slash alone
IsUnsafeSlashOnly(path) == path[1] = ""

IsUnsafe(path) ==
  path[1] = "" \/ \E i \in DOMAIN path : path[i] \in {"..", "a..b"}

\* commits of the repository; the branch name takes the first 8 characters
ShaA1 == "aaaaaaaa1"

ShaB1 == "bbbbbbbb1"

Shas == {ShaA1, ShaB1}

\* `aa/analytics-auto-${sha.slice(0,8)}`
branchNameFromCommit(sha) ==
  IF sha = ShaA1 THEN "aa/analytics-auto-aaaaaaaa"
  ELSE "aa/analytics-auto-bbbbbbbb"

BranchNames == {branchNameFromCommit(sha) : sha \in Shas}

\* repos.getContent(path, ref = commit): the paths present at each commit
TreeAt(sha) ==
  IF sha = ShaA1 THEN {P_index} ELSE {P_contract, P_fire, P_layout}

NoBranch == [exists |-> FALSE, base |-> Null, files |-> {}]

NoApprove(impl) == [op |-> "none", impl |-> impl]

(***************************************************************************)
(* Initial state.                                                          *)
(***************************************************************************)
IdleDelivery ==
  [pc |-> "idle", raw |-> Null, sig |-> NoSig, event |-> Null, code |-> 0,
   kind |-> "none", repoId |-> 0, existed |-> FALSE, made |-> {}, failedAt |-> 0]

\* analyzer worker invocations that may run at the same time
Workers == {"w1", "w2"}

IdleWorker == [pc |-> "idle", run |-> 0, found |-> {}]

\* no ingest, override or schema request answered yet
NoAnswer == [op |-> "none", code |-> 0, kind |-> "none"]

IdleBackfill == [pc |-> "idle", full |-> <<>>, repoId |-> 0, inst |-> Null, i |-> 0]

\* the three browser trackers of the repository: the demo store's tracker
\* (demo-next/public/tracker.js), the generator's fallback tracker
\* (tracker-generator.ts createFallbackTracker) and the example app's tracker
Trackers == {"demo", "fallback", "basic"}

\* events one page tracks
MaxTracked == 3

\* a tracker after its constructor ran; 'attempted', 'acked' and 'dropped' are
\* history.  The demo tracker arms its timer in trackEvent, the other two
\* start an interval when they are initialised.
IdleTracker(impl) ==
  [impl |-> impl, queue |-> <<>>, n |-> 0,
   timer |-> impl \in {"fallback", "basic"},
   isSending |-> FALSE, retryCount |-> 0, flight |-> {}, wait |-> 0,
   attempted |-> {}, acked |-> [e \in 1..MaxTracked |-> 0], dropped |-> {}]

InitStore ==
  /\ repos = {}
  /\ nextRepoId = 1
  /\ runs = <<>>
  /\ events = <<>>
  /\ clock = 1
  /\ lastEnsure = [f \in FullNames |-> [called |-> FALSE, default_branch |-> Null]]
  /\ ensuredIds = [f \in FullNames |-> {}]

InitProcs ==
  /\ del = [d \in Deliveries |-> IdleDelivery]
  /\ bf = IdleBackfill
  /\ wk = [w \in Workers |-> IdleWorker]
  /\ ires = NoAnswer
  /\ tk = IdleTracker("none")

InitRoute ==
  /\ rnodes = <<>>
  /\ rpath = <<>>
  /\ rres = [done |-> FALSE, node_id |-> NullStr]

InitHost ==
  /\ filesAt = [sha \in Shas |-> TreeAt(sha)]
  /\ branches = [b \in BranchNames |-> NoBranch]
  /\ prs = <<>>
  /\ ares = NoApprove("A")
  /\ approved = [sha \in Shas |-> 0]

Init == InitStore /\ InitProcs /\ InitRoute /\ InitHost

(***************************************************************************)
(* POST /webhooks/github (server.ts 172-352).  One action per store call:  *)
(* the upsert, the dedupe select, the insert.                              *)
(***************************************************************************)
Answer(d, code, kind) ==
  [del EXCEPT ![d].pc = "idle", ![d].code = code, ![d].kind = kind]

Arrive(d, raw, sig, event) ==
  [del EXCEPT ![d] = [IdleDelivery EXCEPT !.raw = raw, !.sig = sig, !.event = event]]

\* signature verification, then for a push the ensureRepo upsert
Receive(d, raw, sig, event, fault) ==
  /\ del[d].pc = "idle"
  /\ LET v == VerifySignature(raw, sig)
         in0 == Arrive(d, raw, sig, event)
         payload == ParseBody(raw)
         rows == ensureRepo(repos, payload.full, payload.default_branch,
                            payload.installation, nextRepoId)
     IN
     IF v = "missing_raw" \/ v = "invalid"
     THEN /\ del' = [in0 EXCEPT ![d].code = 401,
                                ![d].kind = IF v = "invalid" THEN "invalid signature"
                                            ELSE "missing raw body"]
          /\ UNCHANGED dirVars
     ELSE IF v = "throw"
     THEN /\ del' = [in0 EXCEPT ![d].code = 500, ![d].kind = "error"]
          /\ UNCHANGED dirVars
     ELSE IF event # "push"
     THEN /\ del' = [in0 EXCEPT ![d].code = 200, ![d].kind = "ignored"]
          /\ UNCHANGED dirVars
     ELSE IF payload.full = <<>>
     THEN /\ del' = [in0 EXCEPT ![d].code = 200, ![d].kind = "no repo.full_name"]
          /\ UNCHANGED dirVars
     ELSE IF fault
     THEN /\ del' = [in0 EXCEPT ![d].code = 500, ![d].kind = "error"]
          /\ UNCHANGED dirVars
     ELSE /\ repos' = rows
          /\ nextRepoId' = IF Cardinality(rows) > Cardinality(repos)
                           THEN nextRepoId + 1 ELSE nextRepoId
          /\ lastEnsure' = [lastEnsure EXCEPT ![payload.full] =
                              [called |-> TRUE,
                               default_branch |-> DefaultBranchArg(payload.default_branch)]]
          /\ ensuredIds' = [ensuredIds EXCEPT ![payload.full] =
                              @ \cup {EnsuredRow(rows, payload.full).id}]
          /\ del' = [in0 EXCEPT
                       ![d].pc = "dedupe",
                       ![d].repoId = EnsuredRow(rows, payload.full).id,
                       ![d].existed =
                          /\ HeadShaOf(payload) # Null
                          /\ RunsFor(runs, EnsuredRow(rows, payload.full).id,
                                     HeadShaOf(payload)) # {}]
  /\ UNCHANGED <<runs, bf, wk, logVars, routeVars, trackVars, hostVars>>

\* if (headSha) { select ... limit 1 }: an error is a 500, a hit answers dedup
Dedupe(d, fault) ==
  /\ del[d].pc = "dedupe"
  /\ LET headSha == HeadShaOf(ParseBody(del[d].raw)) IN
     IF headSha = Null
     THEN del' = [del EXCEPT ![d].pc = "insert"]
     ELSE IF fault
     THEN del' = Answer(d, 500, "dedupe select")
     ELSE IF DedupeExists(runs, del[d].repoId, headSha)
     THEN del' = Answer(d, 200, "dedup")
     ELSE del' = [del EXCEPT ![d].pc = "insert"]
  /\ UNCHANGED <<dirVars, runs, bf, wk, logVars, routeVars, trackVars, hostVars>>

\* insert into analyzer_runs (status queued, event_type push)
Insert(d, fault) ==
  /\ del[d].pc = "insert"
  /\ LET payload == ParseBody(del[d].raw)
         headSha == HeadShaOf(payload)
     IN
     IF fault
     THEN /\ del' = Answer(d, 500, "push insert")
          /\ UNCHANGED runs
     ELSE /\ Len(runs) < MaxRuns
          /\ runs' = Append(runs, RunRow(del[d].repoId, headSha, "push",
                                         payload.before, headSha))
          /\ del' = Answer(d, 200, "inserted")
  /\ UNCHANGED <<dirVars, bf, wk, logVars, routeVars, trackVars, hostVars>>

(***************************************************************************)
(* scripts/backfill.ts main: enqueue runs for recent commits.              *)
(***************************************************************************)
\* what the hosting API lists for the default branch, newest first
GhCommits(full) ==
  IF full = <<"o", "a">>
  THEN <<[sha |-> "s2", parent |-> "s1"], [sha |-> "s1", parent |-> "s0"],
         [sha |-> "s0", parent |-> Null]>>
  ELSE <<[sha |-> "s1", parent |-> "s0"]>>

GhDefaultBranch(full) == "main"

\* select the repo row; the script throws without a row or installation_id
BfStart(full) ==
  /\ bf.pc = "idle"
  /\ RowsFor(repos, parseFullName(full).owner, parseFullName(full).name) # {}
  /\ EnsuredRow(repos, full).installation_id # Null
  /\ bf' = [pc |-> "ensure", full |-> full, repoId |-> EnsuredRow(repos, full).id,
            inst |-> EnsuredRow(repos, full).installation_id, i |-> 0]
  /\ UNCHANGED <<dirVars, runs, del, wk, logVars, routeVars, trackVars, hostVars>>

\* ensureRepo(full, defaultBranch, String(installationId)), then listCommits
BfEnsure(fault) ==
  /\ bf.pc = "ensure"
  /\ IF fault
     THEN /\ bf' = IdleBackfill
          /\ UNCHANGED dirVars
     ELSE LET rows == Upsert(repos, parseFullName(bf.full).owner,
                             parseFullName(bf.full).name,
                             GhDefaultBranch(bf.full), bf.inst, nextRepoId)
          IN
          /\ repos' = rows
          /\ nextRepoId' = IF Cardinality(rows) > Cardinality(repos)
                           THEN nextRepoId + 1 ELSE nextRepoId
          /\ lastEnsure' = [lastEnsure EXCEPT ![bf.full] =
                              [called |-> TRUE,
                               default_branch |-> GhDefaultBranch(bf.full)]]
          /\ ensuredIds' = [ensuredIds EXCEPT ![bf.full] =
                              @ \cup {EnsuredRow(rows, bf.full).id}]
          /\ bf' = [bf EXCEPT !.pc = "select", !.i = 1,
                              !.repoId = EnsuredRow(rows, bf.full).id]
  /\ UNCHANGED <<runs, del, wk, logVars, routeVars, trackVars, hostVars>>

\* loop head and dedupe check; exists.error is not looked at, so a failed
\* select counts as "no run yet"
BfSelect(fault) ==
  /\ bf.pc = "select"
  /\ IF bf.i > Len(GhCommits(bf.full))
     THEN bf' = IdleBackfill
     ELSE IF GhCommits(bf.full)[bf.i].parent = Null
     THEN bf' = [bf EXCEPT !.i = @ + 1]
     ELSE IF ~fault /\ DedupeExists(runs, bf.repoId, GhCommits(bf.full)[bf.i].sha)
     THEN bf' = [bf EXCEPT !.i = @ + 1]
     ELSE bf' = [bf EXCEPT !.pc = "insert"]
  /\ UNCHANGED <<dirVars, runs, del, wk, logVars, routeVars, trackVars, hostVars>>

BfInsert(fault) ==
  /\ bf.pc = "insert"
  /\ IF fault
     THEN /\ bf' = IdleBackfill
          /\ UNCHANGED runs
     ELSE /\ Len(runs) < MaxRuns
          /\ runs' = Append(runs, RunRow(bf.repoId, GhCommits(bf.full)[bf.i].sha, "push",
                                         GhCommits(bf.full)[bf.i].parent,
                                         GhCommits(bf.full)[bf.i].sha))
          /\ bf' = [bf EXCEPT !.pc = "select", !.i = @ + 1]
  /\ UNCHANGED <<dirVars, del, wk, logVars, routeVars, trackVars, hostVars>>

(***************************************************************************)
(* Specifications of the webhook receiver.                                 *)
(***************************************************************************)
\* signature headers a sender may attach to the bytes raw
SigsFor(raw) ==
  {NoSig, Expected(raw), Expected("pushA2"),
   SigHeader("sha256=", "other", raw, 64),
   SigHeader("sha1=", WEBHOOK_SECRET, raw, 40)}

Quiet == \A d \in Deliveries : del[d].pc = "idle"

HookStep(d) ==
  \/ \E fault \in BOOLEAN : Dedupe(d, fault)
  \/ \E fault \in BOOLEAN : Insert(d, fault)

\* concurrent push deliveries and the backfill script, every interleaving
RaceBodies == {"pushA1", "pushB1"}

Next ==
  \/ \E d \in Deliveries, raw \in RaceBodies, fault \in BOOLEAN :
        Receive(d, raw, Expected(raw), "push", fault)
  \/ \E d \in Deliveries : HookStep(d)
  \/ \E full \in FullNames : BfStart(full)
  \/ \E fault \in BOOLEAN : BfEnsure(fault)
  \/ \E fault \in BOOLEAN : BfSelect(fault)
  \/ \E fault \in BOOLEAN : BfInsert(fault)

Spec == Init /\ [][Next]_vars

\* verified push deliveries one after the other
NextSeq ==
  \/ \E raw \in RawBodies, fault \in BOOLEAN :
        Receive("d1", raw, Expected(raw), "push", fault)
  \/ HookStep("d1")

SpecSeq == Init /\ [][NextSeq]_vars

\* one delivery at a time with any signature header and event kind
VerifyBodies == {"pushA1", "pushA1ws", "pushB1", Null}

NextVerify ==
  \/ \E raw \in VerifyBodies, event \in EventKinds, fault \in BOOLEAN :
        \E sig \in SigsFor(raw) : Receive("d1", raw, sig, event, fault)
  \/ HookStep("d1")

SpecVerify == Init /\ [][NextVerify]_vars

(***************************************************************************)
(* Properties of the webhook receiver and the repository directory.        *)
(***************************************************************************)
HeadShaIn(d) == HeadShaOf(ParseBody(del[d].raw))

Answered(d) == del[d].pc = "idle" /\ del[d].code # 0

SameCommit(i, j) ==
  /\ runs[i].repo_id = runs[j].repo_id
  /\ runs[i].commit_sha = runs[j].commit_sha
  /\ runs[i].commit_sha # Null

\* C1: after any number of sequential deliveries of the same verified push
\* (same repository, same head sha) exactly one run row exists for
\* (repository, head sha); a delivery that finds the run inserts none and
\* answers 200 (dedup), unless the store fails the dedupe select itself.
C1_ReplayedPushOneRun ==
  /\ \A i, j \in DOMAIN runs : SameCommit(i, j) => i = j
  /\ \A d \in Deliveries :
       (Answered(d) /\ del[d].kind \in {"inserted", "dedup"} /\ HeadShaIn(d) # Null)
          => Cardinality(RunsFor(runs, del[d].repoId, HeadShaIn(d))) = 1
  /\ \A d \in Deliveries :
       (Answered(d) /\ del[d].existed /\ del[d].kind # "dedupe select")
          => del[d].code = 200 /\ del[d].kind = "dedup"

C1_Witness ==
  \E d \in Deliveries :
     /\ Answered(d) /\ del[d].existed /\ del[d].kind = "dedup"
     /\ Cardinality(RunsFor(runs, del[d].repoId, HeadShaIn(d))) = 1

\* C2: under any interleaving of concurrent push deliveries and backfill
\* insertions there is at most one run per (repository, non-null commit_sha).
C2_OneRunPerCommit ==
  \A i \in DOMAIN runs : \A j \in DOMAIN runs :
     (i # j /\ runs[i].commit_sha # Null /\ runs[i].repo_id = runs[j].repo_id)
        => runs[i].commit_sha # runs[j].commit_sha

ValidDelivery(d) ==
  /\ del[d].raw # Null
  /\ del[d].sig.present
  /\ del[d].sig.prefix = "sha256="
  /\ del[d].sig.hexlen = 64
  /\ del[d].sig.mac = <<WEBHOOK_SECRET, del[d].raw>>

Dispatched(d) == del[d].pc \in {"dedupe", "insert"} \/ (Answered(d) /\ del[d].code = 200)

C3_State ==
  \A d \in Deliveries :
     /\ Dispatched(d) => ValidDelivery(d)
     /\ (Answered(d) /\ ~ValidDelivery(d)) => del[d].code \in {401, 500}

C3_Step ==
  \A d \in Deliveries :
     (del[d].pc = "idle" /\ del'[d] # del[d] /\ ~ValidDelivery(d)')
        => (repos' = repos /\ runs' = runs /\ del'[d].pc = "idle")

\* C3: a delivery reaches a handler only if its raw body was captured and its
\* signature header is 'sha256=' + hex(HMAC-SHA256(secret, raw body)); every
\* other delivery is rejected (401, or 500 when the header has another
\* length) and creates or changes no repos row and no analyzer_runs row.
C3_FailsClosed == []C3_State /\ [][C3_Step]_vars

C3_Witness ==
  \E d \in Deliveries :
     /\ Answered(d) /\ del[d].code = 401 /\ del[d].kind = "invalid signature"
     /\ del[d].sig.present /\ del[d].sig.mac = <<WEBHOOK_SECRET, "pushA2">>
     /\ del[d].raw = "pushA1"
     /\ repos # {}

\* C4: after any sequence of ensure calls for a full name exactly one repos
\* row exists for (provider, owner, name), every call returned the same id,
\* and default_branch is the value the latest call supplied ('main' when
\* that call supplied none).
C4_EnsureLastWriteWins ==
  \A f \in FullNames :
     lastEnsure[f].called =>
        /\ Cardinality(RowsFor(repos, f[1], f[2])) = 1
        /\ Cardinality(ensuredIds[f]) = 1
        /\ \A r \in RowsFor(repos, f[1], f[2]) :
              r.default_branch = lastEnsure[f].default_branch /\ r.id \in ensuredIds[f]

C4_Witness ==
  /\ \E d \in Deliveries :
        /\ Answered(d) /\ del[d].raw = "pushA2" /\ del[d].kind = "inserted"
        /\ RunsFor(runs, del[d].repoId, "s1") # {}
  /\ \E r \in RowsFor(repos, "o", "a") : r.default_branch = "dev"
  /\ Cardinality(ensuredIds[<<"o", "a">>]) = 1

(***************************************************************************)
(* Route matching as a function of (nodes, path).                          *)
(***************************************************************************)
InitLookup ==
  /\ InitStore /\ InitProcs /\ InitHost
  /\ rnodes \in NodeLists
  /\ rpath \in Paths
  /\ rres = [done |-> FALSE, node_id |-> NullStr]

Lookup ==
  /\ ~rres.done
  /\ rres' = [done |-> TRUE, node_id |-> MatchNode(rnodes, rpath)]
  /\ UNCHANGED <<dirVars, runs, hookVars, wk, logVars, rnodes, rpath, hostVars,
               trackVars>>

NextRoute == Lookup

SpecRoute == InitLookup /\ [][NextRoute]_vars

\* the matching the route graph's patterns are documented to have: ':splat'
\* a non-empty suffix, any other ':name' one non-empty segment, every other
\* character itself
IsPlaceholder(p, i) == p[i] = ":" /\ i + 1 <= Len(p) /\ p[i + 1] \in NameStart

RECURSIVE TemplateMatchFrom(_, _, _, _)
TemplateMatchFrom(p, i, str, j) ==
  IF i > Len(p) THEN j = Len(str) + 1
  ELSE IF IsPlaceholder(p, i)
       THEN \E n \in 1..(Len(str) - j + 1) :
               /\ \/ SubSeq(p, i + 1, NameEnd(p, i + 1)) = <<"s", "p", "l", "a", "t">>
                  \/ \A m \in j..(j + n - 1) : str[m] # "/"
               /\ TemplateMatchFrom(p, NameEnd(p, i + 1) + 1, str, j + n)
       ELSE /\ j <= Len(str)
            /\ str[j] = p[i]
            /\ TemplateMatchFrom(p, i + 1, str, j + 1)

RECURSIVE TemplateNodeFrom(_, _, _)
TemplateNodeFrom(nodes, i, path) ==
  IF i > Len(nodes) THEN NullStr
  ELSE IF TemplateMatchFrom(PatternOf(nodes[i]), 1, path, 1) THEN nodes[i].id
  ELSE TemplateNodeFrom(nodes, i + 1, path)

\* C6: route matching returns the id of the first node, in declaration
\* order, whose pattern matches the whole path, a ':name' placeholder matching
\* exactly one non-empty segment and ':splat' a non-empty suffix, and none
\* when no node matches; for [home '/', product '/product/:id'] the path
\* '/product/42' gives 'product', '/' gives 'home' and '/nope' gives none.
C6_RouteMatching ==
  rres.done => rres.node_id = TemplateNodeFrom(rnodes, 1, rpath)

(***************************************************************************)
(* Event log, schema resolution and ingest (routes/ingest.ts, the          *)
(* /ingest/app endpoint of server.ts, writeEventSchema of                  *)
(* scripts/analyze-compare.ts).                                            *)
(***************************************************************************)
MaxEvents == 2

\* the repository id /ingest/app writes to
DEMO_REPO_ID == 1

\* a full name the pattern /^[\w.-]+\/[\w.-]+$/ rejects
BadFull == <<"x">>

\* names every object inherits from Object.prototype
ObjectPrototypeKeys ==
  {"constructor", "toString", "toLocaleString", "valueOf", "hasOwnProperty",
   "isPrototypeOf", "propertyIsEnumerable", "__proto__"}

\* k in obj
In(k, obj) == k \in DOMAIN obj \/ k \in ObjectPrototypeKeys

\* schema payloads (metadata.suggested)
SchemaAI ==
  [events |-> <<[name |-> "page_view", required |-> <<"page_url">>],
                [name |-> "click", required |-> <<>>]>>]

SchemaOvr ==
  [events |-> <<[name |-> "page_view", required |-> <<"page_url", "route">>],
                [name |-> "signup", required |-> <<"constructor", "plan">>]>>]

\* a truthy payload without an events array
SchemaShapeless == [frameworks |-> <<>>]

EmptySchema == [events |-> <<>>]

GraphSite == [nodes |-> <<N_home, N_product>>]

EventRow(id, repoId, sha, verb, ts, source, metadata) ==
  [id |-> id, repo_id |-> repoId, commit_sha |-> sha, verb |-> verb, ts |-> ts,
   source |-> source, metadata |-> metadata]

\* indexes of the rows of (repo_id, verb)
RowsByVerb(log, repoId, verb) ==
  {i \in DOMAIN log : log[i].repo_id = repoId /\ log[i].verb = verb}

\* .order('ts', descending).limit(1).maybeSingle(): the rows the store may
\* return, 0 for none; rows of equal ts come in any order
latestEventByVerb(log, repoId, verb) ==
  IF RowsByVerb(log, repoId, verb) = {} THEN {0}
  ELSE {i \in RowsByVerb(log, repoId, verb) :
          \A j \in RowsByVerb(log, repoId, verb) : log[j].ts <= log[i].ts}

\* (row?.metadata)?.suggested is truthy
HasSuggested(log, i) == i # 0 /\ "suggested" \in DOMAIN log[i].metadata

\* ovr.suggested || ai.suggested || { events: [] }
ResolveSchema(log, ovr, ai) ==
  IF HasSuggested(log, ovr) THEN log[ovr].metadata.suggested
  ELSE IF HasSuggested(log, ai) THEN log[ai].metadata.suggested
  ELSE EmptySchema

\* Array.isArray(schema.events) ? schema.events : []
EventsOf(schema) == IF "events" \in DOMAIN schema THEN schema.events ELSE <<>>

\* a find that falls back to the first definition
FindSpecOrFirst(evs, verb) ==
  IF \E i \in DOMAIN evs : evs[i].name = verb
  THEN CHOOSE i \in DOMAIN evs :
         evs[i].name = verb /\ \A j \in DOMAIN evs : evs[j].name = verb => i <= j
  ELSE IF evs = <<>> THEN 0 ELSE 1

\* events.find(e => e?.name === verb): its index, 0 for undefined
FindSpec(evs, verb) ==
  IF \E i \in DOMAIN evs : evs[i].name = verb
  THEN CHOOSE i \in DOMAIN evs :
         evs[i].name = verb /\ \A j \in DOMAIN evs : evs[j].name = verb => i <= j
  ELSE 0

\* for (const k of required) if (!(k in p.metadata)): the first such k's index
FirstMissing(required, metadata) ==
  IF \E i \in DOMAIN required : ~In(required[i], metadata)
  THEN CHOOSE i \in DOMAIN required :
         /\ ~In(required[i], metadata)
         /\ \A j \in DOMAIN required : ~In(required[j], metadata) => i <= j
  ELSE 0

\* asString((p.metadata as any).key)
StrField(metadata, key) == IF key \in DOMAIN metadata THEN metadata[key] ELSE NullStr

Truthy(str) == str # NullStr /\ str # <<>>

\* new URL(u).pathname for u = scheme '://' host path; undefined when new URL throws
RECURSIVE SlashFrom(_, _)
SlashFrom(u, i) ==
  IF i > Len(u) THEN 0 ELSE IF u[i] = "/" THEN i ELSE SlashFrom(u, i + 1)

coercePathFromUrl(u) ==
  IF u = NullStr \/ Len(u) < 5 \/ SubSeq(u, 1, 4) # <<"h", ":", "/", "/">> THEN NullStr
  ELSE IF SlashFrom(u, 5) = 0 THEN <<"/">>
  ELSE SubSeq(u, SlashFrom(u, 5), Len(u))

\* gro.graph || gra.graph || null, then the node loop; NullStr for null
NodeIdFor(log, gro, gra, metadata) ==
  LET hasO == gro # 0 /\ "graph" \in DOMAIN log[gro].metadata
      hasA == gra # 0 /\ "graph" \in DOMAIN log[gra].metadata
      graph == IF hasO THEN log[gro].metadata.graph ELSE log[gra].metadata.graph
      route == StrField(metadata, "route")
      pageUrl == StrField(metadata, "page_url")
      path == IF route # NullStr THEN route ELSE coercePathFromUrl(pageUrl)
  IN IF (hasO \/ hasA) /\ (Truthy(route) \/ Truthy(pageUrl)) /\ Truthy(path)
     THEN MatchNode(IF "nodes" \in DOMAIN graph THEN graph.nodes ELSE <<>>, path)
     ELSE NullStr

\* `${prevNodeId}->${node_id}` when both are truthy
EdgeIdFor(nodeId, metadata) ==
  IF Truthy(nodeId) /\ Truthy(StrField(metadata, "prev_node_id"))
  THEN StrField(metadata, "prev_node_id") \o <<"-", ">">> \o nodeId
  ELSE NullStr

\* { node_id, edge_id, ...metadata }: the client's own values win
EnrichedUnder(metadata, nodeId, edgeId) ==
  [k \in DOMAIN metadata \cup {"node_id", "edge_id"} |->
     IF k \in DOMAIN metadata THEN metadata[k]
     ELSE IF k = "node_id" THEN nodeId ELSE edgeId]

\* { ...metadata, node_id, edge_id }
Enriched(metadata, nodeId, edgeId) ==
  [k \in DOMAIN metadata \cup {"node_id", "edge_id"} |->
     IF k = "node_id" THEN nodeId ELSE IF k = "edge_id" THEN edgeId ELSE metadata[k]]

\* { ...metadata, app_key }
WithAppKey(metadata, appKey) ==
  [k \in DOMAIN metadata \cup {"app_key"} |->
     IF k = "app_key" THEN appKey ELSE metadata[k]]

\* request inputs of the model
M_min == [session_id |-> <<"s">>]

M_view == [session_id |-> <<"s">>, page_url |-> <<"h", ":", "/", "/", "a", "/">>]

M_nav == [page_url |-> <<"h", ":", "/", "/", "a", "/", "p", "r", "o", "d", "u", "c", "t", "/", "4", "2">>, route |-> <<"/">>, prev_node_id |-> <<"p", "r", "o", "d", "u", "c", "t">>, node_id |-> <<"x">>, edge_id |-> <<"y">>]

M_plan == [plan |-> <<"p">>]

Metadatas == {M_min, M_view, M_nav, M_plan}

Verbs == {"page_view", "signup", "click", "other"}

\* body.ts: 0 when the client sent none
ClientTs == {0, 1}

\* a falsy body field (absent, null, 0, empty string)
Falsy == [falsy |-> TRUE]

Reply(op, code, kind) == [op |-> op, code |-> code, kind |-> kind]

\* POST /schema/override: repoIdByFull throws outside any try (the server
\* answers 500); a falsy suggested is a 400; else one insert
SchemaOverride(full, suggested, fault) ==
  /\ IF full = BadFull
     THEN /\ ires' = Reply("schema_override", 400, "bad full")
          /\ UNCHANGED <<events, clock>>
     ELSE IF findRepoId(repos, full) = 0
     THEN /\ ires' = Reply("schema_override", 500, "repo not found")
          /\ UNCHANGED <<events, clock>>
     ELSE IF suggested = Falsy
     THEN /\ ires' = Reply("schema_override", 400, "no suggested")
          /\ UNCHANGED <<events, clock>>
     ELSE IF fault
     THEN /\ ires' = Reply("schema_override", 500, "store error")
          /\ UNCHANGED <<events, clock>>
     ELSE /\ Len(events) < MaxEvents
          /\ events' = Append(events,
                         EventRow(clock, findRepoId(repos, full), Null,
                                  "schema_override", clock, "ui",
                                  [suggested |-> suggested]))
          /\ clock' = clock + 1
          /\ ires' = Reply("schema_override", 200, "ok")
  /\ UNCHANGED <<dirVars, runs, hookVars, wk, routeVars, trackVars, hostVars>>

\* POST /routes/override
RoutesOverride(full, graph, fault) ==
  /\ IF full = BadFull
     THEN /\ ires' = Reply("routes_override", 400, "bad full")
          /\ UNCHANGED <<events, clock>>
     ELSE IF findRepoId(repos, full) = 0
     THEN /\ ires' = Reply("routes_override", 500, "repo not found")
          /\ UNCHANGED <<events, clock>>
     ELSE IF graph = Falsy
     THEN /\ ires' = Reply("routes_override", 400, "no graph")
          /\ UNCHANGED <<events, clock>>
     ELSE IF fault
     THEN /\ ires' = Reply("routes_override", 500, "store error")
          /\ UNCHANGED <<events, clock>>
     ELSE /\ Len(events) < MaxEvents
          /\ events' = Append(events,
                         EventRow(clock, findRepoId(repos, full), Null,
                                  "route_graph_override", clock, "ui",
                                  [graph |-> graph]))
          /\ clock' = clock + 1
          /\ ires' = Reply("routes_override", 200, "ok")
  /\ UNCHANGED <<dirVars, runs, hookVars, wk, routeVars, trackVars, hostVars>>

\* writeEventSchema: a plain insert of a schema entry for (repo, commit); the
\* store refuses a second row of one (repo_id, commit_sha, verb)
writeEventSchema(repoId, commitSha, suggested, fault) ==
  /\ IF fault
     THEN /\ ires' = Reply("write_schema", 500, "store error")
          /\ UNCHANGED <<events, clock>>
     ELSE IF \E i \in RowsByVerb(events, repoId, "schema") :
                events[i].commit_sha = commitSha
     THEN /\ ires' = Reply("write_schema", 500, "duplicate key")
          /\ UNCHANGED <<events, clock>>
     ELSE /\ Len(events) < MaxEvents
          /\ events' = Append(events,
                         EventRow(clock, repoId, commitSha, "schema", clock,
                                  "github", [suggested |-> suggested]))
          /\ clock' = clock + 1
          /\ ires' = Reply("write_schema", 200, "ok")
  /\ UNCHANGED <<dirVars, runs, hookVars, wk, routeVars, trackVars, hostVars>>

\* POST /ingest/app: any verb, no schema, the fixed repository id
IngestApp(appKey, verb, metadata, fault) ==
  /\ IF appKey = Null \/ verb = Null
     THEN /\ ires' = Reply("ingest_app", 400, "app_key and verb required")
          /\ UNCHANGED <<events, clock>>
     ELSE IF fault
     THEN /\ ires' = Reply("ingest_app", 500, "store error")
          /\ UNCHANGED <<events, clock>>
     ELSE /\ Len(events) < MaxEvents
          /\ events' = Append(events,
                         EventRow(clock, DEMO_REPO_ID, Null, verb, clock, "web",
                                  WithAppKey(metadata, appKey)))
          /\ clock' = clock + 1
          /\ ires' = Reply("ingest_app", 200, "ok")
  /\ UNCHANGED <<dirVars, runs, hookVars, wk, routeVars, trackVars, hostVars>>

\* what POST /ingest answers, with the request and the log it read
IngestReply(code, kind, field, nodeId, edgeId, used, repoId, verb, metadata) ==
  [op |-> "ingest", code |-> code, kind |-> kind, field |-> field,
   node_id |-> nodeId, edge_id |-> edgeId, used |-> used, repoId |-> repoId,
   verb |-> verb, metadata |-> metadata, log |-> events]

\* POST /ingest: resolve the schema, check the required fields, attach the
\* node and the edge, insert (the log takes one ingest row beyond the
\* MaxEvents rows of the other writers, for a schema, a graph and an ingest)
Ingest(full, verb, ts, metadata, fault) ==
  /\ LET repoId == findRepoId(repos, full) IN
     IF repoId = 0
     THEN /\ ires' = IngestReply(400, "repo not found", "", NullStr, NullStr,
                                 EmptySchema, 0, verb, metadata)
          /\ UNCHANGED <<events, clock>>
     ELSE \E ovr \in latestEventByVerb(events, repoId, "schema_override"),
             ai \in latestEventByVerb(events, repoId, "schema"),
             gro \in latestEventByVerb(events, repoId, "route_graph_override"),
             gra \in latestEventByVerb(events, repoId, "route_graph") :
          LET schema == ResolveSchema(events, ovr, ai)
              evs == EventsOf(schema)
              e == FindSpec(evs, verb)
              required == IF "required" \in DOMAIN evs[e] THEN evs[e].required ELSE <<>>
              k == FirstMissing(required, metadata)
              nodeId == NodeIdFor(events, gro, gra, metadata)
              edgeId == EdgeIdFor(nodeId, metadata)
          IN
          IF e = 0
          THEN /\ ires' = IngestReply(400, "unknown verb", "", NullStr, NullStr,
                                      schema, repoId, verb, metadata)
               /\ UNCHANGED <<events, clock>>
          ELSE IF k # 0
          THEN /\ ires' = IngestReply(400, "missing field", required[k], NullStr,
                                      NullStr, schema, repoId, verb, metadata)
               /\ UNCHANGED <<events, clock>>
          ELSE IF fault
          THEN /\ ires' = IngestReply(500, "store error", "", NullStr, NullStr,
                                      schema, repoId, verb, metadata)
               /\ UNCHANGED <<events, clock>>
          ELSE /\ Len(events) <= MaxEvents
               /\ events' = Append(events,
                              EventRow(clock, repoId, Null, verb,
                                       IF ts = 0 THEN clock ELSE ts, "web",
                                       Enriched(metadata, nodeId, edgeId)))
               /\ clock' = clock + 1
               /\ ires' = IngestReply(200, "ok", "", nodeId, edgeId, schema,
                                      repoId, verb, metadata)
  /\ UNCHANGED <<dirVars, runs, hookVars, wk, routeVars, trackVars, hostVars>>

\* what GET /schema/latest answers; a null or absent suggested is Falsy
LatestReply(code, kind, repoId, suggested) ==
  [op |-> "schema_latest", code |-> code, kind |-> kind, repoId |-> repoId,
   suggested |-> suggested]

\* GET /schema/latest (routes/schema.ts): the newest entry of verb 'schema'
GetSchemaLatest(full, fault) ==
  /\ LET repoId == findRepoId(repos, full) IN
     IF full = BadFull
     THEN ires' = LatestReply(400, "bad full", 0, Falsy)
     ELSE IF repoId = 0
     THEN ires' = LatestReply(500, "repo not found", 0, Falsy)
     ELSE IF fault
     THEN ires' = LatestReply(500, "store error", repoId, Falsy)
     ELSE \E i \in latestEventByVerb(events, repoId, "schema") :
          IF i = 0
          THEN ires' = LatestReply(404, "no schema", repoId, Falsy)
          ELSE ires' = LatestReply(200, "ok", repoId,
                                   IF "suggested" \in DOMAIN events[i].metadata
                                   THEN events[i].metadata.suggested ELSE Falsy)
  /\ UNCHANGED <<dirVars, runs, hookVars, events, clock, wk, routeVars, trackVars, hostVars>>

\* one repository (o/a, id 1) is installed; the log is empty
InitIngest ==
  /\ repos = {[id |-> DEMO_REPO_ID, provider |-> "github", owner |-> "o",
               name |-> "a", default_branch |-> "main", installation_id |-> "i1"]}
  /\ nextRepoId = 2
  /\ runs = <<>>
  /\ events = <<>>
  /\ clock = 1
  /\ lastEnsure = [f \in FullNames |-> [called |-> FALSE, default_branch |-> Null]]
  /\ ensuredIds = [f \in FullNames |-> {}]
  /\ InitProcs /\ InitRoute /\ InitHost

NextIngest ==
  \/ \E full \in {<<"o", "a">>, <<"o", "b">>, BadFull}, fault \in BOOLEAN :
        \E suggested \in {SchemaOvr, SchemaShapeless} :
           SchemaOverride(full, suggested, fault)
  \/ \E full \in {<<"o", "a">>, <<"o", "b">>, BadFull} :
        SchemaOverride(full, Falsy, FALSE)
  \/ \E full \in {<<"o", "a">>, BadFull}, fault \in BOOLEAN :
        RoutesOverride(full, GraphSite, fault)
  \/ RoutesOverride(<<"o", "a">>, Falsy, FALSE)
  \/ \E sha \in {"s1", "s2"}, fault \in BOOLEAN :
        writeEventSchema(DEMO_REPO_ID, sha, SchemaAI, fault)
  \/ \E appKey \in {"k1", Null}, verb \in {"schema_override", "page_view"},
        fault \in BOOLEAN : IngestApp(appKey, verb, M_min, fault)
  \/ \E full \in FullNames, verb \in Verbs, ts \in ClientTs,
        metadata \in Metadatas, fault \in BOOLEAN :
        Ingest(full, verb, ts, metadata, fault)
  \/ \E full \in {<<"o", "a">>, <<"o", "b">>, BadFull}, fault \in BOOLEAN :
        GetSchemaLatest(full, fault)

SpecIngest == InitIngest /\ [][NextIngest]_vars

(***************************************************************************)
(* Properties of schema resolution and ingest.                             *)
(***************************************************************************)
\* the payload of a log entry; an entry without one has no known events
PayloadOf(entry) ==
  IF "suggested" \in DOMAIN entry.metadata THEN entry.metadata.suggested
  ELSE EmptySchema

Newest(log, rows) == {i \in rows : \A j \in rows : log[j].ts <= log[i].ts}

\* the schemas the precedence rule allows for a repository
PrecedenceSchemas(log, repoId) ==
  IF RowsByVerb(log, repoId, "schema_override") # {}
  THEN {PayloadOf(log[i]) : i \in Newest(log, RowsByVerb(log, repoId, "schema_override"))}
  ELSE IF RowsByVerb(log, repoId, "schema") # {}
  THEN {PayloadOf(log[i]) : i \in Newest(log, RowsByVerb(log, repoId, "schema"))}
  ELSE {EmptySchema}

\* C5: the schema an ingest is validated against is the payload of the
\* newest schema_override entry whenever the log holds at least one override
\* for the repository (even if a schema entry is newer), otherwise the
\* payload of the newest schema entry.
C5_OverridePrecedence ==
  (ires.op = "ingest" /\ ires.repoId # 0)
     => ires.used \in PrecedenceSchemas(ires.log, ires.repoId)

\* the definition of the request's verb in the schema the ingest used
UsedSpec == EventsOf(ires.used)[FindSpec(EventsOf(ires.used), ires.verb)]

RequiredSet(spec) ==
  IF "required" \in DOMAIN spec THEN {spec.required[i] : i \in DOMAIN spec.required}
  ELSE {}

\* C7: an ingest whose verb has a definition in the resolved schema is
\* accepted iff every name of the definition's required set is a key of
\* metadata; a rejected one names a missing field and appends nothing, an
\* accepted one appends exactly one entry (a store failure answers 500).
C7_RequiredKeys ==
  (/\ ires.op = "ingest" /\ ires.repoId # 0
   /\ FindSpec(EventsOf(ires.used), ires.verb) # 0
   /\ ires.kind # "store error")
     => /\ ires.kind = "ok" <=> RequiredSet(UsedSpec) \subseteq DOMAIN ires.metadata
        /\ ires.kind = "ok" =>
              /\ Len(events) = Len(ires.log) + 1
              /\ SubSeq(events, 1, Len(ires.log)) = ires.log
        /\ ires.kind # "ok" =>
              /\ ires.kind = "missing field"
              /\ ires.field \in RequiredSet(UsedSpec) \ DOMAIN ires.metadata
              /\ events = ires.log

(***************************************************************************)
(* POST /schema/approve: the handlers.                                     *)
(***************************************************************************)
\* pulls.list({ state: 'open', head: owner:branch }): the numbers, oldest first
OpenPrsNever(list, branch) == <<>>

OpenPrsFor(list, branch) ==
  SelectSeq([i \in DOMAIN list |-> i],
            LAMBDA i : list[i].head = branch /\ list[i].state = "open")

\* a schema payload with snippets
SchemaSnip == [events |-> <<>>, snippets |-> <<[path |-> P_snippet]>>]

\* a schema payload whose snippet path climbs out of the repository
SchemaSnipUp == [events |-> <<>>, snippets |-> <<[path |-> P_up]>>]

\* the schema entry of (repo, commit).maybeSingle(), then suggested?.snippets ?? []
SnippetPaths(log, repoId, sha) ==
  LET rows == {i \in RowsByVerb(log, repoId, "schema") : log[i].commit_sha = sha}
      sugg == log[CHOOSE i \in rows : TRUE].metadata.suggested
  IN IF Cardinality(rows) # 1 THEN <<>>
     ELSE IF "suggested" \notin DOMAIN log[CHOOSE i \in rows : TRUE].metadata THEN <<>>
     ELSE IF "snippets" \notin DOMAIN sugg THEN <<>>
     ELSE [i \in DOMAIN sugg.snippets |-> sugg.snippets[i].path]

\* inputFiles?.length ? inputFiles : snippets
CollectFiles(inputFiles, repoId, sha) ==
  IF inputFiles # <<>> THEN inputFiles ELSE SnippetPaths(events, repoId, sha)

IsBootstrap(sha) == P_contract \notin filesAt[sha]

Scaffold == <<P_contract, P_map, P_readme>>

Core == <<P_fire, P_adapter, P_tracker>>

\* routes/schema.ts: bootstrap adds the six files, delta adds none
AssembleA(inputFiles, repoId, sha) ==
  CollectFiles(inputFiles, repoId, sha)
    \o (IF IsBootstrap(sha) THEN Scaffold \o Core ELSE <<>>)

\* the framework entry points, in order
Candidates ==
  <<[path |-> P_layout, kind |-> "next-app"],
    [path |-> <<"app", "layout.tsx">>, kind |-> "next-app"],
    [path |-> <<"src", "pages", "_app.tsx">>, kind |-> "next-pages"],
    [path |-> <<"pages", "_app.tsx">>, kind |-> "next-pages"],
    [path |-> <<"src", "main.tsx">>, kind |-> "react-vite"],
    [path |-> P_index, kind |-> "vanilla"],
    [path |-> <<"public", "index.html">>, kind |-> "vanilla"]>>

\* the first candidate present at the commit; a next-app entry also brings
\* the provider file when it is absent
Injected(sha) ==
  LET found == {i \in DOMAIN Candidates : Candidates[i].path \in filesAt[sha]}
      c == Candidates[CHOOSE i \in found : \A j \in found : i <= j]
  IN IF found = {} THEN <<>>
     ELSE (IF c.kind = "next-app" /\ P_provider \notin filesAt[sha]
           THEN <<P_provider>> ELSE <<>>) \o <<c.path>>

\* routes/analytics-intelligence.ts: the core files in both modes, then the
\* auto-injected entry
AssembleB(inputFiles, repoId, sha, autoInject) ==
  CollectFiles(inputFiles, repoId, sha)
    \o (IF IsBootstrap(sha) THEN Scaffold \o Core ELSE Core)
    \o (IF autoInject THEN Injected(sha) ELSE <<>>)

\* upsertFile in a loop: the number of files written before the first one
\* that is on the branch already while force is unset (all of them if none)
RECURSIVE WrittenBefore(_, _, _, _)
WrittenBefore(files, i, present, force) ==
  IF i > Len(files) THEN Len(files)
  ELSE IF files[i] \in present /\ ~force THEN i - 1
  ELSE WrittenBefore(files, i + 1, present \cup {files[i]}, force)

Range(seq) == {seq[i] : i \in DOMAIN seq}

\* the paths of a file list that exist at the commit
Colliding(files, sha) == {path \in Range(files) : path \in filesAt[sha]}

\* what approve answers, with the request (commit, force, the assembled
\* paths, whether every path is safe, the paths that exist at the commit),
\* the pull request the previous approve of the commit returned (0 for
\* none), the number of commits this call added, the number of its files it
\* put on the branch, whether it changed anything at the host, and whether
\* it repeats the request of a call that failed after changing the host
ApproveReply(repoId, code, status, pr, collisions, sha, files, force, n, ch) ==
  [op |-> "approve", impl |-> ares.impl, repoId |-> repoId, code |-> code,
   status |-> status,
   pr |-> pr, collisions |-> collisions, sha |-> sha,
   safe |-> \A i \in DOMAIN files : ~IsUnsafe(files[i]),
   collide |-> Colliding(files, sha),
   force |-> force, prevPr |-> IF repoId = 0 THEN 0 ELSE approved[sha],
   added |-> n, changed |-> ch, paths |-> files,
   written |-> IF ares.impl = "B" THEN n ELSE IF n = 1 THEN Len(files) ELSE 0,
   retry |-> IF ares.op # "approve" THEN FALSE
             ELSE /\ ares.sha = sha /\ ares.paths = files /\ ares.force = force
                  /\ ares.code >= 400 /\ ares.changed]

Returned(sha, pr) == [approved EXCEPT ![sha] = pr]

\* the branch once it exists, and once a commit with the given paths is on it
Created(b, sha) ==
  [exists |-> TRUE, base |-> IF b.exists THEN b.base ELSE sha,
   files |-> b.files]

Committed(b, paths) == [b EXCEPT !.files = @ \cup paths]

Opened(list, branch) ==
  Append(list, [number |-> Len(list) + 1, head |-> branch, state |-> "open"])

FailPoints == {"none", "write", "pr"}

\* routes/schema.ts POST /schema/approve
ApproveA(full, sha, inputFiles, force, failAt) ==
  /\ ares.impl = "A"
  /\ LET repoId == findRepoId(repos, full)
         files0 == CollectFiles(inputFiles, repoId, sha)
         files == AssembleA(inputFiles, repoId, sha)
         collisions == SelectSeq(files, LAMBDA path : path \in filesAt[sha])
         branch == branchNameFromCommit(sha)
         open == OpenPrsFor(prs, branch)
         made == Created(branches[branch], sha)
         done == Committed(made, Range(files))
     IN IF repoId = 0
        THEN /\ ares' = ApproveReply(repoId, 500, "not found", 0, <<>>, sha, files0,
                                     force, 0, FALSE)
             /\ UNCHANGED <<branches, prs, approved>>
        ELSE IF \E i \in DOMAIN files0 : IsUnsafe(files0[i])
        THEN /\ ares' = ApproveReply(repoId, 500, "unsafe path", 0, <<>>, sha, files0,
                                     force, 0, FALSE)
             /\ UNCHANGED <<branches, prs, approved>>
        ELSE IF collisions # <<>> /\ ~force
        THEN /\ ares' = ApproveReply(repoId, 409, "conflict", 0, collisions, sha, files,
                                     force, 0, FALSE)
             /\ UNCHANGED <<branches, prs, approved>>
        ELSE IF open # <<>>
        THEN /\ ares' = ApproveReply(repoId, 200, "exists", open[1], <<>>, sha, files,
                                     force, 0, FALSE)
             /\ approved' = Returned(sha, open[1])
             /\ UNCHANGED <<branches, prs>>
        ELSE IF failAt = "write"
        THEN /\ branches' = [branches EXCEPT ![branch] = made]
             /\ ares' = ApproveReply(repoId, 502, "upstream", 0, <<>>, sha, files,
                                     force, 0, made # branches[branch])
             /\ UNCHANGED <<prs, approved>>
        ELSE IF failAt = "pr"
        THEN /\ branches' = [branches EXCEPT ![branch] = done]
             /\ ares' = ApproveReply(repoId, 502, "upstream", 0, <<>>, sha, files,
                                     force, 1, TRUE)
             /\ UNCHANGED <<prs, approved>>
        ELSE /\ Len(prs) < MaxPrs
             /\ branches' = [branches EXCEPT ![branch] = done]
             /\ prs' = Opened(prs, branch)
             /\ ares' = ApproveReply(repoId, 200, "created", Len(prs) + 1, <<>>, sha,
                                     files, force, 1, TRUE)
             /\ approved' = Returned(sha, Len(prs) + 1)
  /\ UNCHANGED <<dirVars, runs, hookVars, events, clock, ires, wk, routeVars, trackVars,
                 filesAt>>

\* routes/analytics-intelligence.ts POST /schema/approve: the outcome of a
\* request when the hosting API answers every call
StatusB(full, sha, inputFiles, force, autoInject) ==
  LET repoId == findRepoId(repos, full)
      files0 == CollectFiles(inputFiles, repoId, sha)
      files == AssembleB(inputFiles, repoId, sha, autoInject)
      branch == branchNameFromCommit(sha)
      made == Created(branches[branch], sha)
  IN IF repoId = 0 THEN "not found"
     ELSE IF \E i \in DOMAIN files0 : IsUnsafe(files0[i]) THEN "unsafe path"
     ELSE IF OpenPrsFor(prs, branch) # <<>> THEN "exists"
     ELSE IF WrittenBefore(files, 1, filesAt[made.base] \cup made.files, force)
               < Len(files)
     THEN "conflict"
     ELSE "created"

\* routes/analytics-intelligence.ts POST /schema/approve; a hosting failure
\* in the write loop comes before the last file; the conflict answer names
\* one path, in its message
ApproveB(full, sha, inputFiles, force, autoInject, failAt) ==
  /\ ares.impl = "B"
  /\ LET repoId == findRepoId(repos, full)
         files0 == CollectFiles(inputFiles, repoId, sha)
         files == AssembleB(inputFiles, repoId, sha, autoInject)
         branch == branchNameFromCommit(sha)
         open == OpenPrsFor(prs, branch)
         made == Created(branches[branch], sha)
         k == WrittenBefore(files, 1, filesAt[made.base] \cup made.files, force)
         stop == IF failAt = "write" /\ k >= Len(files) THEN Len(files) - 1
                 ELSE k
         done == Committed(made, {files[i] : i \in 1..stop})
         touched == stop > 0 \/ made # branches[branch]
         status == StatusB(full, sha, inputFiles, force, autoInject)
     IN IF status = "not found"
        THEN /\ ares' = ApproveReply(repoId, 500, "not found", 0, <<>>, sha, files0,
                                     force, 0, FALSE)
             /\ UNCHANGED <<branches, prs, approved>>
        ELSE IF status = "unsafe path"
        THEN /\ ares' = ApproveReply(repoId, 500, "unsafe path", 0, <<>>, sha, files0,
                                     force, 0, FALSE)
             /\ UNCHANGED <<branches, prs, approved>>
        ELSE IF status = "exists"
        THEN /\ branches' = [branches EXCEPT ![branch] = made]
             /\ ares' = ApproveReply(repoId, 200, "exists", open[1], <<>>, sha, files,
                                     force, 0, made # branches[branch])
             /\ approved' = Returned(sha, open[1])
             /\ UNCHANGED prs
        ELSE IF status = "conflict"
        THEN /\ branches' = [branches EXCEPT ![branch] = done]
             /\ ares' = ApproveReply(repoId, 409, "conflict", 0, <<files[k + 1]>>,
                                     sha, files, force, stop, touched)
             /\ UNCHANGED <<prs, approved>>
        ELSE IF failAt # "none"
        THEN /\ branches' = [branches EXCEPT ![branch] = done]
             /\ ares' = ApproveReply(repoId, 502, "upstream", 0, <<>>, sha, files,
                                     force, stop, touched)
             /\ UNCHANGED <<prs, approved>>
        ELSE /\ Len(prs) < MaxPrs
             /\ branches' = [branches EXCEPT ![branch] = done]
             /\ prs' = Opened(prs, branch)
             /\ ares' = ApproveReply(repoId, 200, "created", Len(prs) + 1, <<>>, sha,
                                     files, force, stop, TRUE)
             /\ approved' = Returned(sha, Len(prs) + 1)
  /\ UNCHANGED <<dirVars, runs, hookVars, events, clock, ires, wk, routeVars, trackVars,
                 filesAt>>

\* a maintainer merges or closes an open pull request
MergeOrClose(k, how) ==
  /\ k \in DOMAIN prs
  /\ prs[k].state = "open"
  /\ prs' = [prs EXCEPT ![k].state = how]
  /\ approved' = [sha \in DOMAIN approved |->
                    IF approved[sha] = k THEN 0 ELSE approved[sha]]
  /\ ares' = NoApprove(ares.impl)
  /\ UNCHANGED <<dirVars, runs, hookVars, events, clock, ires, wk, routeVars, trackVars,
                 filesAt, branches>>

InputFiles == {<<>>, <<P_new>>, <<P_index>>, <<P_up>>}

InitApprove ==
  /\ repos = {[id |-> DEMO_REPO_ID, provider |-> "github", owner |-> "o",
               name |-> "a", default_branch |-> "main", installation_id |-> "i1"]}
  /\ nextRepoId = 2
  /\ runs = <<>>
  /\ events \in {<<EventRow(1, DEMO_REPO_ID, ShaB1, "schema", 1, "github",
                           [suggested |-> snip])>> :
                   snip \in {SchemaSnip, SchemaSnipUp}}
  /\ clock = 2
  /\ lastEnsure = [f \in FullNames |-> [called |-> FALSE, default_branch |-> Null]]
  /\ ensuredIds = [f \in FullNames |-> {}]
  /\ InitProcs /\ InitRoute
  /\ filesAt \in {[sha \in {c} |-> TreeAt(sha)] : c \in Shas}
  /\ branches = [b \in BranchNames |-> NoBranch]
  /\ prs = <<>>
  /\ ares \in {NoApprove("A"), NoApprove("B")}
  /\ approved = [sha \in Shas |-> 0]

NextApprove ==
  \/ \E sha \in DOMAIN filesAt, inputFiles \in InputFiles, force \in BOOLEAN,
        failAt \in FailPoints :
        ApproveA(<<"o", "a">>, sha, inputFiles, force, failAt)
  \/ \E sha \in DOMAIN filesAt, inputFiles \in InputFiles, force \in BOOLEAN,
        autoInject \in BOOLEAN, failAt \in FailPoints :
        ApproveB(<<"o", "a">>, sha, inputFiles, force, autoInject, failAt)
  \/ \E full \in FullNames, sha \in DOMAIN filesAt,
        inputFiles \in {<<>>, <<P_abs>>} :
        \/ ApproveA(full, sha, inputFiles, FALSE, "none")
        \/ ApproveB(full, sha, inputFiles, FALSE, TRUE, "none")
  \/ \E k \in 1..MaxPrs, how \in {"merged", "closed"} : MergeOrClose(k, how)

SpecApprove == InitApprove /\ [][NextApprove]_vars

(***************************************************************************)
(* Properties of POST /schema/approve.                                     *)
(***************************************************************************)
OpenOn(branch) ==
  {i \in DOMAIN prs : prs[i].head = branch /\ prs[i].state = "open"}

\* the second approve of a commit, with the first one's pull request still open
SecondApprove == ares.op = "approve" /\ ares.prevPr # 0

SameAgain ==
  ares.status = "exists" /\ ares.pr = ares.prevPr /\ ares.added = 0

\* the request is refused before the pull-request lookup: an unsafe path,
\* or a path that exists at the commit while force is unset
Refusable == ~ares.safe \/ (~ares.force /\ ares.collide # {})

\* C8 as stated: approve called again for the same (repository, commit_sha)
\* with no merge or close in between answers 'exists' with the first call's
\* pull request and adds no commit, and no branch is the head of two open
\* pull requests.
C8_SecondApproveExists ==
  /\ SecondApprove => SameAgain
  /\ \A b \in BranchNames : Cardinality(OpenOn(b)) <= 1

\* C8, amended: approve called again for the same (repository, commit_sha)
\* with no merge or close in between, with a request that has no unsafe
\* path and no path existing at the commit unless force is set, answers
\* 'exists' with the first call's pull request and adds no commit; and no
\* branch is the head of two open pull requests.
C8_SecondApproveExistsUnlessRefused ==
  /\ (SecondApprove /\ ~Refusable) => SameAgain
  /\ \A b \in BranchNames : Cardinality(OpenOn(b)) <= 1

C8_Witness ==
  /\ SecondApprove /\ ~Refusable /\ SameAgain
  /\ \E b \in BranchNames : Cardinality(OpenOn(b)) = 1

\* C9: approve with force unset and an assembled file that exists at
\* commit_sha answers a conflict that lists exactly the colliding paths, and
\* changes nothing at the host (no branch, no commit or file write, no pull
\* request).
C9_ConflictWritesNothing ==
  (ares.op = "approve" /\ ares.repoId # 0 /\ ares.safe /\ ~ares.force
     /\ ares.collide # {})
    => /\ ares.status = "conflict"
       /\ Range(ares.collisions) = ares.collide
       /\ ~ares.changed

(***************************************************************************)
(* The analyzer worker (runOnce), one action per awaited store call; any   *)
(* number of invocations may be in progress.                               *)
(***************************************************************************)
\* the select without the event_type filter
QueuedAny(rs) == {i \in DOMAIN rs : rs[i].status = "queued"}

\* .eq('status','queued').eq('event_type','push').order('created_at').limit(1)
QueuedPushes(rs) ==
  {i \in DOMAIN rs : rs[i].status = "queued" /\ rs[i].event_type = "push"}

\* the select with the order reversed: the newest queued push run
NewestQueued(rs) ==
  IF QueuedPushes(rs) = {} THEN 0
  ELSE CHOOSE i \in QueuedPushes(rs) : \A j \in QueuedPushes(rs) : i >= j

Oldest(rs) ==
  IF QueuedPushes(rs) = {} THEN 0
  ELSE CHOOSE i \in QueuedPushes(rs) : \A j \in QueuedPushes(rs) : i <= j

\* .update({ status, ... }).eq('id', run.id)
SetStatus(rs, i, status, note) ==
  [rs EXCEPT ![i].status = status, ![i].note = note]

\* s.head_sha || run.commit_sha
HeadOf(r) == IF r.head_sha # Null THEN r.head_sha ELSE r.commit_sha

\* step 1: select the oldest queued push run; none ends the invocation
WPick(w) ==
  /\ wk[w].pc = "idle"
  /\ wk' = [wk EXCEPT ![w] = IF Oldest(runs) = 0
                             THEN [pc |-> "done", run |-> 0, found |-> {}]
                             ELSE [pc |-> "picked", run |-> Oldest(runs),
                                   found |-> {}]]
  /\ UNCHANGED <<dirVars, runs, hookVars, logVars, routeVars, trackVars, hostVars>>

\* the update to 'running', by id alone; its result is not looked at, so
\* after a store error the invocation goes on with the row as it was
WMark(w, fault) ==
  /\ wk[w].pc = "picked"
  /\ runs' = IF fault THEN runs
             ELSE SetStatus(runs, wk[w].run, "running", runs[wk[w].run].note)
  /\ wk' = [wk EXCEPT ![w].pc = "working"]
  /\ UNCHANGED <<dirVars, hookVars, logVars, routeVars, trackVars, hostVars>>

\* what step 5 can find at head: framework markers in package.json,
\* route-like paths in the tree, changed frontend-looking paths
Findings == {{}, {"framework"}, {"route"}, {"changed"}}

\* the test with no early exit
SkipNever(found) == FALSE

\* frameworks.length === 0 && routesSample.length === 0 &&
\* changedFrontend.length === 0
SkipNonFrontend(found) == found = {}

\* steps 2-6: repository row, base/head, compare, frameworks and routes,
\* the early exit, inference; a throw goes to the catch, which marks the
\* run failed
WWork(w, found, outcome) ==
  /\ wk[w].pc = "working"
  /\ LET r == runs[wk[w].run]
         thrown == \/ outcome = "throw"
                   \/ \A row \in repos : row.id # r.repo_id
                   \/ HeadOf(r) = Null
     IN IF thrown
        THEN /\ runs' = SetStatus(runs, wk[w].run, "failed", "error")
             /\ wk' = [wk EXCEPT ![w].pc = "done"]
        ELSE IF SkipNonFrontend(found)
        THEN /\ runs' = SetStatus(runs, wk[w].run, "completed", "skipped")
             /\ wk' = [wk EXCEPT ![w].pc = "done", ![w].found = found]
        ELSE /\ wk' = [wk EXCEPT ![w].pc = "persist", ![w].found = found]
             /\ UNCHANGED runs
  /\ UNCHANGED <<dirVars, hookVars, logVars, routeVars, trackVars, hostVars>>

\* a step 7 that goes on to step 8 without writing
WPersistLax(w, schema, fault) ==
  /\ wk[w].pc = "persist"
  /\ wk' = [wk EXCEPT ![w].pc = "complete"]
  /\ UNCHANGED <<dirVars, runs, hookVars, logVars, routeVars, trackVars, hostVars>>

\* step 7: upsert of the schema entry on (repo_id, commit_sha, verb)
WPersist(w, schema, fault) ==
  /\ wk[w].pc = "persist"
  /\ LET r == runs[wk[w].run]
         old == {i \in RowsByVerb(events, r.repo_id, "schema") :
                   events[i].commit_sha = HeadOf(r)}
         row == EventRow(clock, r.repo_id, HeadOf(r), "schema", clock, "github",
                         [suggested |-> schema])
     IN IF fault
        THEN /\ runs' = SetStatus(runs, wk[w].run, "failed", "error")
             /\ wk' = [wk EXCEPT ![w].pc = "done"]
             /\ UNCHANGED <<events, clock>>
        ELSE /\ old # {} \/ Len(events) < MaxEvents
             /\ events' = IF old = {} THEN Append(events, row)
                          ELSE [i \in DOMAIN events |->
                                  IF i \in old THEN row ELSE events[i]]
             /\ clock' = clock + 1
             /\ wk' = [wk EXCEPT ![w].pc = "complete"]
             /\ UNCHANGED runs
  /\ UNCHANGED <<dirVars, hookVars, ires, routeVars, trackVars, hostVars>>

\* step 8: the update to 'completed'; an error goes to the catch
WComplete(w, fault) ==
  /\ wk[w].pc = "complete"
  /\ runs' = IF fault THEN SetStatus(runs, wk[w].run, "failed", "error")
             ELSE SetStatus(runs, wk[w].run, "completed", "schema")
  /\ wk' = [wk EXCEPT ![w].pc = "done"]
  /\ UNCHANGED <<dirVars, hookVars, logVars, routeVars, trackVars, hostVars>>

\* the process exits; the next invocation starts
WExit(w) ==
  /\ wk[w].pc = "done"
  /\ wk' = [wk EXCEPT ![w] = IdleWorker]
  /\ UNCHANGED <<dirVars, runs, hookVars, logVars, routeVars, trackVars, hostVars>>

\* JSON.parse(text) of the inference answer, when it parses: objects with an
\* events array, and one without
InferenceOutputs == {SchemaAI, EmptySchema, SchemaShapeless}

\* the queue a worker may find: push runs of two commits, and an
\* installation run
QueueA == <<RunRow(DEMO_REPO_ID, "s1", "push", "s0", "s1")>>

QueueB ==
  <<RunRow(DEMO_REPO_ID, "s1", "push", "s0", "s1"),
    RunRow(DEMO_REPO_ID, "s2", "push", "s1", "s2")>>

QueueC ==
  <<RunRow(DEMO_REPO_ID, Null, "installation", Null, Null),
    RunRow(DEMO_REPO_ID, "s1", "push", Null, Null)>>

InitWorker ==
  /\ repos = {[id |-> DEMO_REPO_ID, provider |-> "github", owner |-> "o",
               name |-> "a", default_branch |-> "main", installation_id |-> "i1"]}
  /\ nextRepoId = 2
  /\ runs \in {QueueA, QueueB, QueueC}
  /\ events = <<>>
  /\ clock = 1
  /\ lastEnsure = [f \in FullNames |-> [called |-> FALSE, default_branch |-> Null]]
  /\ ensuredIds = [f \in FullNames |-> {}]
  /\ InitProcs /\ InitRoute /\ InitHost

NextWorker ==
  \E w \in Workers :
    \/ WPick(w)
    \/ \E fault \in BOOLEAN : WMark(w, fault)
    \/ \E found \in Findings, outcome \in {"ok", "throw"} :
          WWork(w, found, outcome)
    \/ \E schema \in InferenceOutputs, fault \in BOOLEAN :
          WPersist(w, schema, fault)
    \/ \E fault \in BOOLEAN : WComplete(w, fault)
    \/ WExit(w)

SpecWorker == InitWorker /\ [][NextWorker]_vars

(***************************************************************************)
(* Properties of the run status.                                           *)
(***************************************************************************)
Rank(status) ==
  CASE status = "queued" -> 0
    [] status = "running" -> 1
    [] OTHER -> 2

Terminal(status) == status \in {"completed", "failed"}

\* C10: no step moves a run to an earlier status, a completed or failed run
\* keeps its status, and the run an invocation selects is queued.
C10_Step ==
  /\ \A i \in DOMAIN runs :
        /\ Rank(runs'[i].status) >= Rank(runs[i].status)
        /\ Terminal(runs[i].status) => runs'[i].status = runs[i].status
  /\ \A w \in Workers :
        (wk[w].pc = "idle" /\ wk'[w].pc = "picked")
          => runs[wk'[w].run].status = "queued"

C10_StatusForwardOnly == [][C10_Step]_vars

\* the invocations that hold run i: selected it and have not exited
Holders(i) == {w \in Workers : wk[w].pc # "idle" /\ wk[w].run = i}

\* C11: a run picked by one runOnce invocation is picked by no other one,
\* also when the selects and the mark-running updates of two invocations
\* interleave.
C11_PickedOnce == \A i \in DOMAIN runs : Cardinality(Holders(i)) <= 1

(***************************************************************************)
(* Properties of the schema entries.                                       *)
(***************************************************************************)
SchemaRowsOf(repoId, sha) ==
  {i \in RowsByVerb(events, repoId, "schema") : events[i].commit_sha = sha}

\* C12: a (repository, head_sha) has at most one schema entry, and a writer
\* of schema entries that meets the duplicate key ends in success, not in
\* an error.
C12_SchemaEntryOnce ==
  /\ \A i \in DOMAIN events :
        Cardinality(SchemaRowsOf(events[i].repo_id, events[i].commit_sha)) <= 1
  /\ ires.kind # "duplicate key"

(***************************************************************************)
(* POST /webhooks/github, events installation and                          *)
(* installation_repositories (server.ts 201-277): one run per repository   *)
(* of the batch.                                                           *)
(***************************************************************************)
InstallBodies == {"instA", "instAB", "addArmB"}

RepoItem(full, branch) == [full |-> full, default_branch |-> branch]

InstallPayload(inst, repositories, added, removed) ==
  [installation |-> inst, repositories |-> repositories,
   repositories_added |-> added, repositories_removed |-> removed]

\* payload.repositories / repositories_added / repositories_removed, [] when absent
ParseInstall(raw) ==
  CASE raw = "instA" ->
         InstallPayload("i1", <<RepoItem(<<"o", "a">>, "main")>>, <<>>, <<>>)
    [] raw = "instAB" ->
         InstallPayload("i1", <<RepoItem(<<"o", "a">>, Null),
                                RepoItem(<<"o", "b">>, "dev")>>, <<>>, <<>>)
    [] OTHER ->
         InstallPayload("i2", <<>>, <<RepoItem(<<"o", "a">>, "main")>>,
                        <<RepoItem(<<"o", "b">>, Null)>>)

\* what the store does to the calls made for one repository of the batch
StoreFaults == {"none", "ensure", "find", "insert"}

BatchPositions == {1, 2}

\* the handler's progress: the tables, the batch positions that got their run,
\* the first position whose repository was not resolved or whose insert
\* failed, the ensureRepo calls made, and the answer
Progress(rows, nid, rs) ==
  [rows |-> rows, nid |-> nid, rs |-> rs, made |-> {}, failedAt |-> 0,
   ensured |-> <<>>, code |-> 0, kind |-> "none"]

Stop(st, i, code, kind) ==
  [st EXCEPT !.code = code, !.kind = kind,
             !.failedAt = IF @ = 0 THEN i ELSE @]

Ensured(st, r, inst) ==
  LET rows1 == ensureRepo(st.rows, r.full, r.default_branch, inst, st.nid)
  IN [st EXCEPT !.rows = rows1,
                !.nid = IF Cardinality(rows1) > Cardinality(st.rows)
                        THEN @ + 1 ELSE @,
                !.ensured = Append(@, r)]

Queued(st, i, repoId, kind) ==
  [st EXCEPT !.rs = Append(@, RunRow(repoId, Null, kind, Null, Null)),
             !.made = IF repoId = 0 THEN @ ELSE @ \cup {i},
             !.failedAt = IF repoId = 0 /\ @ = 0 THEN i ELSE @]

\* event installation: ensureRepo, findRepoId (its store error is not
\* looked at: null), and the insert only if (repoId)
RECURSIVE InstallLoop(_, _, _, _, _)
InstallLoop(list, i, faults, inst, st) ==
  IF i > Len(list) THEN [st EXCEPT !.code = 200, !.kind = "ok"]
  ELSE IF faults[i] = "ensure" THEN Stop(st, i, 500, "error")
  ELSE LET st1 == Ensured(st, list[i], inst)
           repoId == IF faults[i] = "find" THEN 0
                     ELSE findRepoId(st1.rows, list[i].full)
       IN IF repoId = 0
          THEN InstallLoop(list, i + 1, faults, inst,
                           [st1 EXCEPT !.failedAt = IF @ = 0 THEN i ELSE @])
          ELSE IF faults[i] = "insert"
          THEN Stop(st1, i, 500, "installation insert")
          ELSE InstallLoop(list, i + 1, faults, inst,
                           Queued(st1, i, repoId, "installation"))

\* repositories_added: ensureRepo and the insert with row.id
RECURSIVE AddedLoop(_, _, _, _, _)
AddedLoop(list, i, faults, inst, st) ==
  IF i > Len(list) THEN st
  ELSE IF faults[i] = "ensure" THEN Stop(st, i, 500, "error")
  ELSE LET st1 == Ensured(st, list[i], inst)
       IN IF faults[i] = "insert" THEN Stop(st1, i, 500, "added insert")
          ELSE AddedLoop(list, i + 1, faults, inst,
                         Queued(st1, i, EnsuredRow(st1.rows, list[i].full).id,
                                "installation_repositories"))

\* repositories_removed: findRepoId and the insert with whatever it gave
RECURSIVE RemovedLoop(_, _, _, _, _)
RemovedLoop(list, j, off, faults, st) ==
  IF st.code # 0 THEN st
  ELSE IF j > Len(list) THEN [st EXCEPT !.code = 200, !.kind = "ok"]
  ELSE LET repoId == IF faults[off + j] = "find" THEN 0
                     ELSE findRepoId(st.rows, list[j].full)
       IN IF faults[off + j] = "insert"
          THEN Stop(st, off + j, 500, "removed insert")
          ELSE RemovedLoop(list, j + 1, off, faults,
                           Queued(st, off + j, repoId,
                                  "installation_repositories"))

HandleInstall(event, payload, faults) ==
  IF event = "installation"
  THEN InstallLoop(payload.repositories, 1, faults, payload.installation,
                   Progress(repos, nextRepoId, runs))
  ELSE RemovedLoop(payload.repositories_removed, 1,
                   Len(payload.repositories_added), faults,
                   AddedLoop(payload.repositories_added, 1, faults,
                             payload.installation,
                             Progress(repos, nextRepoId, runs)))

\* the whole handler for one delivery of an installation event
InstallHook(d, raw, sig, event, faults) ==
  /\ del[d].pc = "idle"
  /\ LET v == VerifySignature(raw, sig)
         in0 == Arrive(d, raw, sig, event)
         st == HandleInstall(event, ParseInstall(raw), faults)
     IN IF v # "ok"
        THEN /\ del' = [in0 EXCEPT ![d].code = 401,
                                   ![d].kind = "invalid signature"]
             /\ UNCHANGED <<dirVars, runs>>
        ELSE /\ Len(st.rs) <= MaxRuns
             /\ repos' = st.rows
             /\ nextRepoId' = st.nid
             /\ runs' = st.rs
             /\ lastEnsure' =
                  [f \in FullNames |->
                     LET calls == {k \in DOMAIN st.ensured : st.ensured[k].full = f}
                         last == CHOOSE k \in calls : \A m \in calls : m <= k
                     IN IF calls = {} THEN lastEnsure[f]
                        ELSE [called |-> TRUE,
                              default_branch |->
                                 DefaultBranchArg(st.ensured[last].default_branch)]]
             /\ ensuredIds' =
                  [f \in FullNames |->
                     IF \E k \in DOMAIN st.ensured : st.ensured[k].full = f
                     THEN ensuredIds[f] \cup {EnsuredRow(st.rows, f).id}
                     ELSE ensuredIds[f]]
             /\ del' = [in0 EXCEPT ![d].code = st.code, ![d].kind = st.kind,
                                   ![d].made = st.made,
                                   ![d].failedAt = st.failedAt]
  /\ UNCHANGED <<bf, wk, logVars, routeVars, trackVars, hostVars>>

\* the x-github-event header the sender puts on the body
EventOf(raw) ==
  IF raw \in {"instA", "instAB"} THEN "installation"
  ELSE "installation_repositories"

NoFault == [i \in BatchPositions |-> "none"]

\* no store failure, or one failure at one position of the batch
FaultPlans ==
  {NoFault} \cup {[NoFault EXCEPT ![i] = f] :
                    i \in BatchPositions, f \in StoreFaults}

NextInstall ==
  \/ \E d \in Deliveries, raw \in InstallBodies, faults \in FaultPlans :
        InstallHook(d, raw, Expected(raw), EventOf(raw), faults)
  \/ InstallHook("d1", "instA", NoSig, "installation", NoFault)
  \/ InstallHook("d1", "instA", Expected("instA"), "installation_repositories",
                 NoFault)

SpecInstall == Init /\ [][NextInstall]_vars

(***************************************************************************)
(* Properties of the installation handlers.                                *)
(***************************************************************************)
BatchOf(d) ==
  IF del[d].event = "installation"
  THEN Len(ParseInstall(del[d].raw).repositories)
  ELSE Len(ParseInstall(del[d].raw).repositories_added)
         + Len(ParseInstall(del[d].raw).repositories_removed)

Handled(d) ==
  /\ del[d].pc = "idle" /\ del[d].raw \in InstallBodies
  /\ del[d].code \in {200, 500}

\* C13: when an insert fails or a repository of the batch cannot be
\* resolved, the handler answers 5xx and creates no run for a later
\* repository of the batch; it answers success only if every repository of
\* the batch got its run.
C13_BatchFailureSurfaced ==
  \A d \in Deliveries :
     Handled(d) =>
       /\ del[d].failedAt # 0 =>
            /\ del[d].code >= 500
            /\ \A i \in del[d].made : i < del[d].failedAt
       /\ del[d].code = 200 => del[d].made = 1..BatchOf(d)

\* C18: of two deliveries of the same verified installation or
\* installation_repositories webhook, one creates no run rows.
C18_RedeliveryAddsNoRun ==
  \A d, e \in Deliveries :
     (d # e /\ Handled(d) /\ Handled(e) /\ del[d].raw = del[e].raw
        /\ del[d].event = del[e].event /\ del[d].code = 200 /\ del[e].code = 200)
       => (del[d].made = {} \/ del[e].made = {})

\* C14: a schema entry the worker persists has an array-typed 'events':
\* inference output without one is replaced by the fallback schema, never
\* persisted as it is.
C14_PersistedSchemaHasEvents ==
  \A i \in DOMAIN events :
     events[i].verb = "schema" => "events" \in DOMAIN events[i].metadata.suggested

(***************************************************************************)
(* The push-summary worker (the other runOnce): the same pick and          *)
(* mark-running, no try/catch; a throw ends the process.                   *)
(***************************************************************************)
\* s.base_sha || parseCompare(s.compare).base
BaseOf(r) == r.base_sha

\* repository row, base/head, diff, analysis
W3Work(w, outcome) ==
  /\ wk[w].pc = "working"
  /\ LET r == runs[wk[w].run]
         thrown == \/ outcome = "throw"
                   \/ \A row \in repos : row.id # r.repo_id
                   \/ BaseOf(r) = Null \/ HeadOf(r) = Null
                   \/ \E row \in repos :
                         row.id = r.repo_id /\ row.installation_id = Null
     IN wk' = [wk EXCEPT ![w].pc = IF thrown THEN "crashed" ELSE "persist3"]
  /\ UNCHANGED <<dirVars, runs, hookVars, logVars, routeVars, trackVars, hostVars>>

\* insert of the push_summary entry; error code 23505 is let through
W3Persist(w, fault) ==
  /\ wk[w].pc = "persist3"
  /\ LET r == runs[wk[w].run]
         old == {i \in RowsByVerb(events, r.repo_id, "push_summary") :
                   events[i].commit_sha = HeadOf(r)}
     IN IF fault
        THEN /\ wk' = [wk EXCEPT ![w].pc = "crashed"]
             /\ UNCHANGED <<events, clock>>
        ELSE IF old # {}
        THEN /\ wk' = [wk EXCEPT ![w].pc = "complete3"]
             /\ UNCHANGED <<events, clock>>
        ELSE /\ Len(events) < MaxEvents
             /\ events' = Append(events,
                            EventRow(clock, r.repo_id, HeadOf(r), "push_summary",
                                     clock, "github", [head_sha |-> HeadOf(r)]))
             /\ clock' = clock + 1
             /\ wk' = [wk EXCEPT ![w].pc = "complete3"]
  /\ UNCHANGED <<dirVars, runs, hookVars, ires, routeVars, trackVars, hostVars>>

\* the update to 'completed'; its error is thrown
W3Complete(w, fault) ==
  /\ wk[w].pc = "complete3"
  /\ IF fault
     THEN /\ wk' = [wk EXCEPT ![w].pc = "crashed"]
          /\ UNCHANGED runs
     ELSE /\ runs' = SetStatus(runs, wk[w].run, "completed", "summary")
          /\ wk' = [wk EXCEPT ![w].pc = "done"]
  /\ UNCHANGED <<dirVars, hookVars, logVars, routeVars, trackVars, hostVars>>

\* process.exit(1); the next invocation starts
W3Exit(w) ==
  /\ wk[w].pc = "crashed"
  /\ wk' = [wk EXCEPT ![w] = IdleWorker]
  /\ UNCHANGED <<dirVars, runs, hookVars, logVars, routeVars, trackVars, hostVars>>

NextSummary ==
  \E w \in Workers :
    \/ WPick(w)
    \/ \E fault \in BOOLEAN : WMark(w, fault)
    \/ \E outcome \in {"summary", "throw"} : W3Work(w, outcome)
    \/ \E fault \in BOOLEAN : W3Persist(w, fault)
    \/ \E fault \in BOOLEAN : W3Complete(w, fault)
    \/ WExit(w)
    \/ W3Exit(w)

SpecSummary == InitWorker /\ [][NextSummary]_vars

\* C15: an invocation that picked a run and has ended did not leave it
\* running, and one that ended by a failure left it failed with the error
\* in its summary.
C15_FailureEndsFailed ==
  \A w \in Workers :
     /\ (wk[w].pc \in {"done", "crashed"} /\ wk[w].run # 0)
          => runs[wk[w].run].status # "running"
     /\ wk[w].pc = "crashed"
          => /\ runs[wk[w].run].status = "failed"
             /\ runs[wk[w].run].note = "error"

\* C16: the event log is append-only: every step leaves every entry written
\* so far in place with the same id, timestamp and metadata.
C16_Step ==
  \A i \in DOMAIN events : i \in DOMAIN events' /\ events'[i] = events[i]

C16_AppendOnly == [][C16_Step]_vars

\* the push payload with which delivery d has just called ensure
EnsureCall(d) == del[d].pc = "idle" /\ del'[d].pc = "dedupe"

\* C17: ensure for an existing repository leaves installation_id (and
\* default_branch) as stored when the call does not supply it.
C17_Step ==
  \A d \in Deliveries :
     EnsureCall(d) =>
       LET p == ParseBody(del'[d].raw) IN
       \A r \in RowsFor(repos, parseFullName(p.full).owner,
                        parseFullName(p.full).name) :
          \E r2 \in repos' :
             /\ r2.id = r.id
             /\ p.installation = Null => r2.installation_id = r.installation_id
             /\ p.default_branch = Null => r2.default_branch = r.default_branch

C17_EnsureKeepsUnsupplied == [][C17_Step]_vars

\* C19: an approve leaves on the branch none of its files or all of them,
\* also when it fails, and a successful approve adds exactly one commit.
C19_AtomicWrite ==
  ares.op = "approve" =>
    /\ ares.written \in {0, Len(ares.paths)}
    /\ ares.status = "created" => ares.added = 1

\* C20: the identical approve (force unset) repeated after a call that
\* failed once it had created or written the branch ends with an open pull
\* request on the branch, unless the host fails again.
C20_RetryCompletes ==
  (ares.op = "approve" /\ ares.retry /\ ~ares.force /\ ares.status # "upstream")
    => /\ ares.status \in {"created", "exists"}
       /\ OpenOn(branchNameFromCommit(ares.sha)) # {}

(***************************************************************************)
(* Properties of the pick (runs are stored in creation order).             *)
(***************************************************************************)
\* C21: runOnce picks the oldest queued push run, so that push runs leave
\* 'queued' for 'running' in creation order; with no queued push run the
\* invocation ends and changes nothing.
C21_Step ==
  /\ \A w \in Workers :
       (wk[w].pc = "idle" /\ wk'[w].pc # "idle") =>
         IF QueuedPushes(runs) = {}
         THEN /\ wk'[w] = [pc |-> "done", run |-> 0, found |-> {}]
              /\ UNCHANGED <<dirVars, runs, hookVars, logVars, routeVars, trackVars, hostVars>>
         ELSE /\ wk'[w].pc = "picked"
              /\ wk'[w].run \in QueuedPushes(runs)
              /\ \A j \in QueuedPushes(runs) : wk'[w].run <= j
  /\ \A i \in DOMAIN runs :
       (runs[i].status = "queued" /\ runs'[i].status = "running") =>
         /\ runs[i].event_type = "push"
         /\ \A j \in QueuedPushes(runs) : i <= j

C21_PicksOldestPush == [][C21_Step]_vars

\* the second push run is running, the first was taken before it, and an
\* invocation that found nothing queued has ended
C21_Witness ==
  /\ Len(runs) = 2
  /\ runs[1].event_type = "push" /\ runs[1].status # "queued"
  /\ runs[2].status = "running"
  /\ \E w \in Workers : wk[w] = [pc |-> "done", run |-> 0, found |-> {}]

\* C22: while an invocation is past the mark (calling the hosting API or
\* the inference function, persisting, completing), the run it picked is
\* not shown as queued by the store.
C22_MarkedBeforeWork ==
  \A w \in Workers :
    wk[w].pc \in {"working", "persist", "complete", "persist3", "complete3"}
      => runs[wk[w].run].status # "queued"

\* C23: the step that finds no framework markers, no route-like paths and
\* no changed frontend paths ends the invocation with the run completed,
\* the skipped note added to its summary and the rest of the row as it was;
\* it does not go on to inference and persist, and the event log is as before.
C23_Step ==
  \A w \in Workers :
    (wk[w].pc = "working" /\ wk'[w].pc \in {"done", "persist"}
       /\ runs'[wk[w].run].status # "failed" /\ wk'[w].found = {}) =>
      /\ wk'[w].pc = "done"
      /\ runs' = [runs EXCEPT ![wk[w].run].status = "completed",
                              ![wk[w].run].note = "skipped"]
      /\ events' = events

NamesOf(schema) == {EventsOf(schema)[i].name : i \in DOMAIN EventsOf(schema)}

\* C24: an ingest whose verb names no event definition of the schema it
\* resolved is answered with the unknown-verb error and appends nothing;
\* with no schema and no schema_override entry for the repository the
\* resolved schema has no events and the ingest is rejected.
C24_UnknownVerbRejected ==
  (ires.op = "ingest" /\ ires.repoId # 0) =>
    /\ ires.verb \notin NamesOf(ires.used) =>
         /\ ires.code = 400 /\ ires.kind = "unknown verb"
         /\ events = ires.log
    /\ (RowsByVerb(ires.log, ires.repoId, "schema_override") = {}
          /\ RowsByVerb(ires.log, ires.repoId, "schema") = {}) =>
         /\ NamesOf(ires.used) = {}
         /\ ires.kind = "unknown verb"

\* a verb refused under a schema that has definitions
C24_Witness ==
  /\ ires.op = "ingest" /\ ires.repoId # 0
  /\ NamesOf(ires.used) # {} /\ ires.verb \notin NamesOf(ires.used)
  /\ ires.kind = "unknown verb"

(***************************************************************************)
(* Properties of POST /ingest: the core fields.                            *)
(***************************************************************************)
\* the core field set of every event definition
REQUIRED_FIELDS == {"app_key", "session_id", "user_id", "ts"}

\* C25: the required set ingest enforces for a definition holds the core
\* fields app_key, session_id, user_id and ts besides the fields the
\* definition lists, so that an accepted ingest carries all of them.
C25_CoreFieldsEnforced ==
  (/\ ires.op = "ingest" /\ ires.repoId # 0
   /\ ires.verb \in NamesOf(ires.used) /\ ires.kind = "ok")
     => REQUIRED_FIELDS \subseteq DOMAIN ires.metadata

(***************************************************************************)
(* Properties of POST /ingest: enrichment.                                 *)
(***************************************************************************)
\* the entry an accepted ingest appended
StoredRow == events[Len(events)]

\* the node ids the handler can derive from the log it read
DerivedNodes(log, repoId, metadata) ==
  {NodeIdFor(log, gro, gra, metadata) :
     gro \in latestEventByVerb(log, repoId, "route_graph_override"),
     gra \in latestEventByVerb(log, repoId, "route_graph")}

\* C26: the metadata an accepted ingest stores is the submitted metadata on
\* every key but node_id and edge_id; node_id and edge_id are the derived
\* values, also when the client sent its own; edge_id is
\* '{prev_node_id}->{node_id}' exactly when a node matched and prev_node_id
\* was supplied and null otherwise, never non-null with a null node_id.
C26_EnrichmentFrame ==
  (ires.op = "ingest" /\ ires.kind = "ok") =>
    LET stored == StoredRow.metadata
        sub == ires.metadata
    IN /\ DOMAIN stored = DOMAIN sub \cup {"node_id", "edge_id"}
       /\ \A k \in DOMAIN sub \ {"node_id", "edge_id"} : stored[k] = sub[k]
       /\ stored.node_id = ires.node_id /\ stored.edge_id = ires.edge_id
       /\ stored.node_id \in DerivedNodes(ires.log, ires.repoId, sub)
       /\ stored.edge_id =
            IF stored.node_id # NullStr /\ "prev_node_id" \in DOMAIN sub
            THEN sub.prev_node_id \o <<"-", ">">> \o stored.node_id
            ELSE NullStr
       /\ stored.node_id = NullStr => stored.edge_id = NullStr

\* an accepted ingest whose client sent its own node_id and edge_id and
\* got the derived node and edge
C26_Witness ==
  /\ ires.op = "ingest" /\ ires.kind = "ok"
  /\ "node_id" \in DOMAIN ires.metadata
  /\ StoredRow.metadata.node_id \notin {NullStr, ires.metadata.node_id}
  /\ StoredRow.metadata.edge_id \notin {NullStr, ires.metadata.edge_id}

\* the matches of a URL's path under the resolved route graph: the newest
\* route_graph_override if the log has one, else the newest route_graph,
\* null with no graph
UrlNodes(log, repoId, url) ==
  LET ovr == RowsByVerb(log, repoId, "route_graph_override")
      ai == RowsByVerb(log, repoId, "route_graph")
      rows == IF ovr # {} THEN Newest(log, ovr) ELSE Newest(log, ai)
  IN IF rows = {} THEN {NullStr}
     ELSE {MatchNode(log[i].metadata.graph.nodes, coercePathFromUrl(url)) :
             i \in rows}

\* C27: an accepted ingest whose metadata has a page_url, with or without a
\* route key, stores and echoes as node_id the match of the URL's path
\* under the resolved route graph, null when there is no graph or no match.
C27_NodeFromPageUrl ==
  (ires.op = "ingest" /\ ires.kind = "ok" /\ "page_url" \in DOMAIN ires.metadata)
    => /\ ires.node_id \in UrlNodes(ires.log, ires.repoId, ires.metadata.page_url)
       /\ StoredRow.metadata.node_id = ires.node_id

(***************************************************************************)
(* Properties of POST /schema/override.                                    *)
(***************************************************************************)
\* C28: an accepted schema override appends exactly one schema_override
\* entry whose payload has an events array and changes no other entry; a
\* refused one, and so every payload that is not events-shaped, appends
\* nothing.
C28_Step ==
  ires'.op = "schema_override" =>
    IF ires'.code = 200
    THEN /\ Len(events') = Len(events) + 1
         /\ SubSeq(events', 1, Len(events)) = events
         /\ events'[Len(events')].verb = "schema_override"
         /\ "events" \in DOMAIN events'[Len(events')].metadata.suggested
    ELSE events' = events

C28_OverrideEventsShaped == [][C28_Step]_vars

(***************************************************************************)
(* Properties of requests for an unknown repository.                       *)
(***************************************************************************)
\* C29: an ingest, a schema or route-graph override or an approve that
\* names a repository the directory does not hold is answered 404 with a
\* reason, and an ingest so refused leaves the log as it was.
C29_UnknownRepoNotFound ==
  /\ (ires.op = "ingest" /\ ires.repoId = 0) =>
        /\ ires.code = 404 /\ ires.kind = "repo not found"
        /\ events = ires.log
  /\ (ires.op \in {"schema_override", "routes_override"}
        /\ ires.kind = "repo not found") => ires.code = 404
  /\ (ares.op = "approve" /\ ares.repoId = 0) => ares.code = 404

(***************************************************************************)
(* Properties of the file set approve assembles.                           *)
(***************************************************************************)
\* what a caller can supply, and the snippets of the schema entry
Supplied == UNION {Range(f) : f \in InputFiles} \cup {P_snippet}

\* C30: the assembled file set holds the core runtime files and the
\* contract/readme/adapter-map scaffolding when the marker
\* .analytics/contract.json is absent at commit_sha, and holds none of them,
\* only supplied files or snippets, when the marker is present.
C30_BootstrapFileSet ==
  (ares.op = "approve" /\ ares.repoId # 0 /\ ares.safe) =>
    IF IsBootstrap(ares.sha)
    THEN Range(Core) \cup Range(Scaffold) \subseteq Range(ares.paths)
    ELSE /\ Range(ares.paths) \cap (Range(Core) \cup Range(Scaffold)) = {}
         /\ Range(ares.paths) \subseteq Supplied

(***************************************************************************)
(* Properties of auto-injection.                                           *)
(***************************************************************************)
\* C31: in every state, a request to routes/analytics-intelligence.ts gets
\* the same status with auto-injection enabled as with auto-injection
\* disabled, also when an entry-point file exists at commit_sha.
C31_AutoInjectSameStatus ==
  ares.impl = "B" =>
    \A sha \in DOMAIN filesAt, inputFiles \in InputFiles, force \in BOOLEAN :
      StatusB(<<"o", "a">>, sha, inputFiles, force, TRUE)
        = StatusB(<<"o", "a">>, sha, inputFiles, force, FALSE)

(***************************************************************************)
(* Properties of the signature check: the answer to a wrong header.        *)
(***************************************************************************)
\* C32: a delivery whose signature header is present and wrong, of any
\* length, is answered 401 (invalid signature), never a server error.
C32_WrongSignatureIs401 ==
  \A d \in Deliveries :
    (Answered(d) /\ del[d].raw # Null /\ del[d].sig.present /\ ~ValidDelivery(d))
      => del[d].code = 401 /\ del[d].kind = "invalid signature"

(***************************************************************************)
(* Properties of GET /schema/latest.                                       *)
(***************************************************************************)
\* the schemas POST /ingest validates against, for the log as it is
IngestSchemas(log, repoId) ==
  {ResolveSchema(log, ovr, ai) :
     ovr \in latestEventByVerb(log, repoId, "schema_override"),
     ai \in latestEventByVerb(log, repoId, "schema")}

\* C35: the schema GET /schema/latest returns is a schema POST /ingest
\* validates against in the same state, the override when the log has one;
\* it reports no schema only when ingest has none either.
C35_LatestAgreesWithIngest ==
  (ires.op = "schema_latest" /\ ires.code \in {200, 404}) =>
    IF ires.code = 200
    THEN ires.suggested \in IngestSchemas(events, ires.repoId)
    ELSE IngestSchemas(events, ires.repoId) = {EmptySchema}

(***************************************************************************)
(* Properties of persist-then-complete.                                    *)
(***************************************************************************)
C36_State ==
  \A i \in DOMAIN runs :
    (runs[i].status = "completed" /\ runs[i].note # "skipped")
      => SchemaRowsOf(runs[i].repo_id, HeadOf(runs[i])) # {}

C36_Step ==
  \A w \in Workers :
    (wk[w].pc = "persist" /\ wk'[w].pc # "persist" /\ events' = events)
      => /\ wk'[w].pc = "done"
         /\ runs'[wk[w].run].status = "failed"

C37_State ==
  \A i \in DOMAIN runs : runs[i].event_type # "push" => runs[i].status = "queued"

C37_Step ==
  \A i \in DOMAIN runs : runs[i].event_type # "push" => runs'[i] = runs[i]

\* C37: no step of a worker invocation changes a run whose trigger kind is
\* not push; the runs the installation webhooks enqueued stay queued.
C37_NonPushUntouched == []C37_State /\ [][C37_Step]_vars

\* the push run behind an installation run was taken and finished, the
\* installation run is as it was enqueued
C37_Witness ==
  /\ Len(runs) = 2
  /\ runs[1] = RunRow(DEMO_REPO_ID, Null, "installation", Null, Null)
  /\ runs[2].event_type = "push" /\ runs[2].status \in {"completed", "failed"}

(***************************************************************************)
(* Properties of path sanitization.                                        *)
(***************************************************************************)
\* the paths of the requests that start with '/' or contain '..'
UnsafeInputs == {P_abs, P_up}

\* C38: no path that starts with '/' or contains '..' is ever on a branch,
\* and an approve whose supplied files or snippets hold such a path fails
\* without creating a branch, a commit or a pull request.
C38_UnsafeNeverWritten ==
  /\ \A b \in BranchNames : branches[b].files \cap UnsafeInputs = {}
  /\ (ares.op = "approve" /\ ares.repoId # 0
        /\ Range(ares.paths) \cap UnsafeInputs # {})
       => /\ ares.code >= 400 /\ ares.status = "unsafe path"
          /\ ~ares.changed /\ ares.added = 0 /\ ares.pr = 0

\* an approve refused for the '..' path of a snippet, and one for a
\* caller's path
C38_Witness ==
  /\ ares.op = "approve" /\ ares.repoId # 0 /\ ares.status = "unsafe path"
  /\ ares.paths \in {<<P_up>>, <<P_abs>>}

(***************************************************************************)
(* The browser trackers: queue, flush timer, sends and retries.            *)
(* demo: tracker.js 51-113; fallback: tracker-generator.ts 330-447;        *)
(* basic: the example app's tracker, flush with no retry.                  *)
(***************************************************************************)
\* config.batchSize, scaled down from 10
batchSize == 2

maxRetries == 3

\* the cap of the fallback tracker's backoff, in milliseconds
MaxDelay == 30000

RECURSIVE Pow2(_)
Pow2(n) == IF n = 0 THEN 1 ELSE 2 * Pow2(n - 1)

\* no delay between attempts
NoBackoff(retryCount) == 0

\* Math.min(Math.pow(2, this.retryCount) * 1000, 30000)
Backoff(retryCount) ==
  IF Pow2(retryCount) * 1000 < MaxDelay THEN Pow2(retryCount) * 1000 ELSE MaxDelay

\* queue.splice(0, batchSize): the batch taken, and what stays queued
Spliced(queue) ==
  SubSeq(queue, 1, IF Len(queue) < batchSize THEN Len(queue) ELSE batchSize)

Rest(queue) ==
  SubSeq(queue, (IF Len(queue) < batchSize THEN Len(queue) ELSE batchSize) + 1,
         Len(queue))

Post(batch, retry, delay) == [batch |-> batch, retry |-> retry, delay |-> delay]

\* the POST of a batch goes out
Sent(t, batch, retry, delay) ==
  [t EXCEPT !.flight = @ \cup {Post(batch, retry, delay)},
            !.attempted = @ \cup Range(batch)]

\* flush() of the demo and the basic tracker
flush(t) ==
  IF t.queue = <<>> THEN t
  ELSE Sent([t EXCEPT !.queue = Rest(t.queue)], Spliced(t.queue), 0, 0)

\* the fallback tracker's sendEvents without its isSending guard
sendEventsUnguarded(t, delay) ==
  IF t.queue = <<>> THEN t
  ELSE Sent([t EXCEPT !.isSending = TRUE, !.queue = Rest(t.queue)],
            Spliced(t.queue), t.retryCount, delay)

\* the fallback tracker's sendEvents, up to the fetch
sendEvents(t, delay) ==
  IF t.isSending \/ t.queue = <<>> THEN t
  ELSE Sent([t EXCEPT !.isSending = TRUE, !.queue = Rest(t.queue)],
            Spliced(t.queue), t.retryCount, delay)

\* eventQueue.unshift(...batch)
PutBack(batch, queue) == batch \o queue

Acked(t, batch) ==
  [t EXCEPT !.acked = [e \in DOMAIN @ |-> IF e \in Range(batch) THEN @[e] + 1 ELSE @[e]]]

Dropped(t, batch) == [t EXCEPT !.dropped = @ \cup Range(batch)]

InitTrack ==
  /\ InitStore /\ InitRoute /\ InitHost
  /\ del = [d \in Deliveries |-> IdleDelivery]
  /\ bf = IdleBackfill
  /\ wk = [w \in Workers |-> IdleWorker]
  /\ ires = NoAnswer
  /\ tk \in {IdleTracker(impl) : impl \in Trackers}

TrackFrame == UNCHANGED <<dirVars, runs, hookVars, wk, logVars, routeVars, hostVars>>

\* trackEvent(name, props)
TrackEvent ==
  /\ tk.impl \in Trackers
  /\ tk.n < MaxTracked
  /\ LET pushed == [tk EXCEPT !.n = @ + 1, !.queue = Append(@, tk.n + 1)]
     IN  tk' = CASE tk.impl = "demo" -> [pushed EXCEPT !.timer = TRUE]
                 [] tk.impl = "fallback" ->
                      IF Len(pushed.queue) >= batchSize THEN sendEvents(pushed, 0)
                      ELSE pushed
                 [] OTHER ->
                      IF Len(pushed.queue) >= batchSize THEN flush(pushed)
                      ELSE pushed
  /\ TrackFrame

\* the flush timer fires: the demo tracker's one-shot timeout, the other two
\* trackers' interval
FlushTimer ==
  /\ tk.impl \in Trackers
  /\ tk.timer
  /\ tk' = CASE tk.impl = "demo" -> [flush(tk) EXCEPT !.timer = FALSE]
             [] tk.impl = "fallback" -> sendEvents(tk, 0)
             [] OTHER -> flush(tk)
  /\ TrackFrame

\* the fetch of one POST settles: ok, or a failure (a rejected fetch or a
\* status that is not ok)
Respond(f, ok) ==
  /\ tk.impl \in Trackers
  /\ f \in tk.flight
  /\ LET landed == [tk EXCEPT !.flight = @ \ {f}]
     IN  tk' =
           CASE tk.impl = "demo" ->
                  IF ok THEN Acked(landed, f.batch)
                  ELSE IF f.retry < maxRetries
                       THEN Sent(landed, f.batch, f.retry + 1, NoBackoff(f.retry + 1))
                       ELSE Dropped(landed, f.batch)
             [] tk.impl = "fallback" ->
                  IF ok
                  THEN [Acked(landed, f.batch) EXCEPT !.retryCount = 0, !.isSending = FALSE]
                  ELSE IF tk.retryCount < maxRetries
                       THEN [landed EXCEPT !.queue = PutBack(f.batch, @),
                                           !.retryCount = @ + 1,
                                           !.wait = Backoff(tk.retryCount + 1)]
                       ELSE [Dropped(landed, f.batch) EXCEPT !.retryCount = 0,
                                                             !.isSending = FALSE]
             [] OTHER ->
                  IF ok THEN Acked(landed, f.batch) ELSE Dropped(landed, f.batch)
  /\ TrackFrame

\* the fallback tracker's backoff timeout fires
RetryTimer ==
  /\ tk.impl = "fallback"
  /\ tk.wait > 0
  /\ tk' = sendEvents([tk EXCEPT !.isSending = FALSE, !.wait = 0], tk.wait)
  /\ TrackFrame

NextTrack ==
  \/ TrackEvent
  \/ FlushTimer
  \/ \E f \in tk.flight, ok \in BOOLEAN : Respond(f, ok)
  \/ RetryTimer

SpecTrack == InitTrack /\ [][NextTrack]_vars

\* timers fire and every fetch settles; nothing makes the page track again
SpecTrackFair ==
  /\ InitTrack /\ [][NextTrack]_vars
  /\ WF_vars(FlushTimer)
  /\ WF_vars(\E f \in tk.flight, ok \in BOOLEAN : Respond(f, ok))
  /\ WF_vars(RetryTimer)


\* C33: every tracked event is eventually handed to a send attempt, with no
\* further trackEvent call needed: once an event is tracked, a POST that
\* contains it goes out
C33_EveryEventAttempted ==
  \A e \in 1..MaxTracked : (tk.n >= e) ~> (e \in tk.attempted)

\* C34: a failed batch is re-sent at most maxRetries times, each re-send after
\* a delay of min(2^attempt * 1000, 30000) ms, and it is dropped only when the
\* re-sends are used up; a send that is not a re-send starts with a full
\* budget (retry 0)
C34_State ==
  tk.impl \in {"demo", "fallback"} =>
    \A f \in tk.flight :
      /\ f.retry <= maxRetries
      /\ f.retry >= 1 => f.delay = Backoff(f.retry) /\ f.delay <= MaxDelay
      /\ f.retry = 0 => f.delay = 0

C34_Step ==
  tk.impl \in {"demo", "fallback"} =>
    /\ tk'.dropped # tk.dropped =>
         \E f \in tk.flight \ tk'.flight :
           f.retry = maxRetries /\ tk'.dropped = tk.dropped \cup Range(f.batch)
    /\ \A f \in tk'.flight \ tk.flight :
         Range(f.batch) \cap tk.attempted = {} => f.retry = 0

C34_BoundedBackoffRetry == []C34_State /\ [][C34_Step]_vars

\* C39: in the fallback tracker at most one POST is in flight, a failed batch
\* goes back to the head of the queue in its order before the newer events, no
\* event is in more than one acknowledged POST, and an event that is gone
\* without an acknowledgement was in a batch dropped once the retries were
\* used up
InFlight(t) == UNION {Range(f.batch) : f \in t.flight}

C39_State ==
  tk.impl = "fallback" =>
    /\ Cardinality(tk.flight) <= 1
    /\ \A e \in 1..MaxTracked : tk.acked[e] <= 1
    /\ \A e \in 1..tk.n :
         e \notin Range(tk.queue) /\ e \notin InFlight(tk) /\ tk.acked[e] = 0
           => e \in tk.dropped

C39_Step ==
  tk.impl = "fallback" =>
    \A f \in tk.flight \ tk'.flight :
      \/ tk'.acked # tk.acked /\ tk'.queue = tk.queue /\ tk'.dropped = tk.dropped
      \/ /\ tk'.dropped = tk.dropped \cup Range(f.batch)
         /\ tk.retryCount = maxRetries /\ f.retry = maxRetries
         /\ tk'.acked = tk.acked /\ tk'.queue = tk.queue
      \/ /\ tk'.queue = f.batch \o tk.queue
         /\ tk.retryCount < maxRetries
         /\ tk'.acked = tk.acked /\ tk'.dropped = tk.dropped

C39_OneSendInFlight == []C39_State /\ [][C39_Step]_vars

\* a batch failed while a newer event was queued and is back at the head
C39_Witness ==
  /\ tk.impl = "fallback" /\ tk.isSending /\ tk.flight = {} /\ tk.wait > 0
  /\ tk.queue = <<1, 2, 3>>

====
